---- MODULE Spec2Model ----
(***************************************************************************)
(* DCF valuation code of niveshak-ai: dcf_intrinsic_valuation              *)
(* (src/analysis/dcf_calculation.py), DCFAnalyzer (src/analysis/           *)
(* valuation.py), SymbolStockAnalyzer.generate_dcf_analysis and            *)
(* determine_valuation_status (src/analysis/symbol_stock_analyzer.py) and  *)
(* the helpers of src/utils/financial_utils.py.                            *)
(*                                                                         *)
(* Python floats are modelled as exact rationals.  TLC integers are 32 bit *)
(* wide and (1.12)^10 is not, so numerators and denominators are naturals  *)
(* of arbitrary size, kept as sequences of limbs.                          *)
(***************************************************************************)
EXTENDS Integers, Sequences, FiniteSets, TLC

(***************************************************************************)
(* Naturals of arbitrary size: limbs in base Base, least significant       *)
(* first, no leading zero limb; zero is the empty sequence.                *)
(***************************************************************************)
Base == 10000

\* the position of the highest nonzero limb of a at or below i, 0 if none
RECURSIVE TopLimb(_, _)
TopLimb(a, i) ==
    IF i = 0 THEN 0 ELSE IF a[i] # 0 THEN i ELSE TopLimb(a, i - 1)

\* a without its leading zero limbs
BTrim(a) == SubSeq(a, 1, TopLimb(a, Len(a)))

RECURSIVE BFromNat(_)
BFromNat(n) == IF n = 0 THEN <<>> ELSE <<n % Base>> \o BFromNat(n \div Base)

\* limb i of a, 0 beyond its length
Limb(a, i) == IF i \in 1..Len(a) THEN a[i] ELSE 0

Max(m, n) == IF m >= n THEN m ELSE n

\* Carry propagation over the columns xs[lo..hi] with carry c coming in: the
\* limbs and the carry going out.  The range is halved, so the nesting of the
\* evaluation grows with the logarithm of the length.
CarryLeaf(v) == [out |-> <<v % Base>>, c |-> v \div Base]

CarryJoin(out, high) == [out |-> out \o high.out, c |-> high.c]

RECURSIVE Carry(_, _, _, _)
CarryHigh(xs, lo, hi, low) == CarryJoin(low.out, Carry(xs, lo, hi, low.c))

Carry(xs, lo, hi, c) ==
    IF lo = hi THEN CarryLeaf(xs[lo] + c)
    ELSE CarryHigh(xs, (lo + hi) \div 2 + 1, hi,
                   Carry(xs, lo, (lo + hi) \div 2, c))

\* the natural of the limbs and the carry going out
Carried(r) == BTrim(r.out \o BFromNat(r.c))

\* a + b for a # <<>>
BAdd(a, b) ==
    Carried(Carry([i \in 1..Max(Len(a), Len(b)) |-> Limb(a, i) + Limb(b, i)],
                  1, Max(Len(a), Len(b)), 0))

\* a - b for a >= b, a # <<>>
BSub(a, b) ==
    BTrim(Carry([i \in 1..Len(a) |-> a[i] - Limb(b, i)], 1, Len(a), 0).out)

RECURSIVE BCmpAt(_, _, _)
BCmpAt(a, b, i) ==
    IF i = 0 THEN 0
    ELSE IF a[i] < b[i] THEN -1
    ELSE IF a[i] > b[i] THEN 1
    ELSE BCmpAt(a, b, i - 1)

\* -1, 0 or 1 as a < b, a = b or a > b
BCmp(a, b) ==
    IF Len(a) < Len(b) THEN -1
    ELSE IF Len(a) > Len(b) THEN 1
    ELSE BCmpAt(a, b, Len(a))

\* the sum of a[j] * b[k + 1 - j] over j in lo..hi: column k of the product
RECURSIVE BCol(_, _, _, _, _)
BCol(a, b, k, lo, hi) ==
    IF lo = hi THEN a[lo] * Limb(b, k + 1 - lo)
    ELSE BCol(a, b, k, lo, (lo + hi) \div 2)
         + BCol(a, b, k, (lo + hi) \div 2 + 1, hi)

BMul(a, b) ==
    IF a = <<>> \/ b = <<>> THEN <<>>
    ELSE Carried(Carry([k \in 1..(Len(a) + Len(b) - 1) |->
                           BCol(a, b, k, 1, Len(a))],
                       1, Len(a) + Len(b) - 1, 0))

\* Long division of the limbs a[lo..hi] by a small k > 0 with remainder c
\* coming in from the limbs above: the quotient limbs, most significant
\* first, and the remainder.
DivLeaf(v, k) == [out |-> <<v \div k>>, c |-> v % k]

DivJoin(out, low) == [out |-> out \o low.out, c |-> low.c]

RECURSIVE DivScan(_, _, _, _, _)
DivLow(a, k, lo, hi, high) == DivJoin(high.out, DivScan(a, k, lo, hi, high.c))

DivScan(a, k, lo, hi, c) ==
    IF lo = hi THEN DivLeaf(c * Base + a[lo], k)
    ELSE DivLow(a, k, lo, (lo + hi) \div 2,
                DivScan(a, k, (lo + hi) \div 2 + 1, hi, c))

\* quotient out, most significant limb first, and remainder c of a # <<>> by
\* a small k > 0
BDivS(a, k) == DivScan(a, k, 1, Len(a), 0)

Reverse(s) == [i \in 1..Len(s) |-> s[Len(s) + 1 - i]]

\* the quotient of a division q as a natural
BQuot(q) == BTrim(Reverse(q.out))

(***************************************************************************)
(* Rationals [s, n, d]: sign s in {-1, 0, 1}, numerator n and denominator  *)
(* d > 0 as naturals.  Common factors built from the primes of             *)
(* SmallFactors are cancelled after every operation.  Comparisons          *)
(* cross-multiply and do not depend on the cancelling.                     *)
(***************************************************************************)
SmallFactors == <<10000, 100, 16, 2, 5, 3, 7, 17>>

RECURSIVE Strip(_, _)
\* nd with the factor k cancelled once more if the divisions qn, qd are exact
StripQ(nd, k, qn, qd) ==
    IF qn.c = 0 /\ qd.c = 0 THEN Strip(<<BQuot(qn), BQuot(qd)>>, k) ELSE nd

\* n / d with every common factor k cancelled, n # <<>>
Strip(nd, k) == StripQ(nd, k, BDivS(nd[1], k), BDivS(nd[2], k))

\* n / d with the factors from SmallFactors[i] on cancelled
RECURSIVE StripAll(_, _)
StripAll(nd, i) ==
    IF i > Len(SmallFactors) \/ nd[2] = <<1>> THEN nd
    ELSE StripAll(Strip(nd, SmallFactors[i]), i + 1)

Zero == [s |-> 0, n |-> <<>>, d |-> <<1>>]

Signed(s, nd) == [s |-> s, n |-> nd[1], d |-> nd[2]]

\* s * n / d for d # 0
RNorm(s, n, d) ==
    IF s = 0 \/ n = <<>> THEN Zero ELSE Signed(s, StripAll(<<n, d>>, 1))

\* the rational a / b of two integers, b > 0
Frac(a, b) ==
    RNorm(IF a < 0 THEN -1 ELSE IF a = 0 THEN 0 ELSE 1,
          BFromNat(IF a < 0 THEN -a ELSE a), BFromNat(b))

Num(a) == Frac(a, 1)

One == Num(1)

Neg(x) == [x EXCEPT !.s = -x.s]

Mul(x, y) == RNorm(x.s * y.s, BMul(x.n, y.n), BMul(x.d, y.d))

\* x / y for y # 0
Div(x, y) == RNorm(x.s * y.s, BMul(x.n, y.d), BMul(x.d, y.n))

\* xs * a / d + ys * b / d for signs xs, ys # 0
AddCross(xs, ys, a, b, d) ==
    IF xs = ys THEN RNorm(xs, BAdd(a, b), d)
    ELSE IF BCmp(a, b) = 0 THEN Zero
    ELSE IF BCmp(a, b) > 0 THEN RNorm(xs, BSub(a, b), d)
    ELSE RNorm(ys, BSub(b, a), d)

Add(x, y) ==
    IF x.s = 0 THEN y
    ELSE IF y.s = 0 THEN x
    ELSE AddCross(x.s, y.s, BMul(x.n, y.d), BMul(y.n, x.d), BMul(x.d, y.d))

Sub(x, y) == Add(x, Neg(y))

\* the sign of x - y
Cmp(x, y) ==
    IF x.s # y.s THEN (IF x.s < y.s THEN -1 ELSE 1)
    ELSE x.s * BCmp(BMul(x.n, y.d), BMul(y.n, x.d))

Eq(x, y) == Cmp(x, y) = 0
Lt(x, y) == Cmp(x, y) < 0
Le(x, y) == Cmp(x, y) <= 0
Gt(x, y) == Cmp(x, y) > 0
Ge(x, y) == Cmp(x, y) >= 0

IsZero(x) == x.s = 0

RMax(x, y) == IF Ge(x, y) THEN x ELSE y
RMin(x, y) == IF Le(x, y) THEN x ELSE y
RAbs(x) == IF x.s < 0 THEN Neg(x) ELSE x

Square(x) == Mul(x, x)

\* x ** k for an integer k >= 0, by repeated squaring
RECURSIVE Pow(_, _)
Pow(x, k) ==
    IF k = 0 THEN One
    ELSE IF k % 2 = 1 THEN Mul(x, Pow(x, k - 1))
    ELSE Square(Pow(x, k \div 2))

\* the sum of xs[lo..hi]; exact addition is associative, the halves are
\* added to keep the nesting of the evaluation small
RECURSIVE SumRange(_, _, _)
SumRange(xs, lo, hi) ==
    IF lo > hi THEN Zero
    ELSE IF lo = hi THEN xs[lo]
    ELSE Add(SumRange(xs, lo, (lo + hi) \div 2),
             SumRange(xs, (lo + hi) \div 2 + 1, hi))

\* sum(xs) of a list
Sum(xs) == SumRange(xs, 1, Len(xs))

(***************************************************************************)
(* Values shared by the entry points.                                      *)
(***************************************************************************)
\* Python's None
None == [status |-> "none"]

\* an exception leaving a function: its type and the source line raising it
Raise(exc, line) == [status |-> "raised", exc |-> exc, line |-> line]

\* dict.get(key, default) on a dict kept as a function on its keys
Get(dict, key, default) == IF key \in DOMAIN dict THEN dict[key] ELSE default

(***************************************************************************)
(* dcf_intrinsic_valuation, src/analysis/dcf_calculation.py                *)
(***************************************************************************)
\* the year index from which the second growth rate applies (line 50)
FirstStageYears == 5

\* line 46: number_of_shares = share_capital / face_value if face_value else 1.0
NumberOfShares(share_capital, face_value) ==
    IF ~IsZero(face_value) THEN Div(share_capital, face_value) ELSE One

\* StageGrowth switching rates one year late
StageGrowth_OneYearLate(i, fcf_growth_rate_5yr, fcf_growth_rate_10yr) ==
    IF i <= FirstStageYears THEN fcf_growth_rate_5yr ELSE fcf_growth_rate_10yr

\* lines 50-53: the growth rate of loop index i (0-based)
StageGrowth(i, fcf_growth_rate_5yr, fcf_growth_rate_10yr) ==
    IF i < FirstStageYears THEN fcf_growth_rate_5yr ELSE fcf_growth_rate_10yr

\* NextFcf flooring the base at zero
NextFcf_FlooredBase(i, base_fcf, projected_fcfs, growth) ==
    IF i = 0 THEN Mul(RMax(base_fcf, Zero), Add(One, growth))
    ELSE Mul(projected_fcfs[Len(projected_fcfs)], Add(One, growth))

\* NextFcf growing year 1 only
NextFcf_GrowthDropped(i, base_fcf, projected_fcfs, growth) ==
    IF i = 0 THEN Mul(base_fcf, Add(One, growth))
    ELSE projected_fcfs[Len(projected_fcfs)]

\* lines 54-57: the FCF of loop index i from the list projected so far
NextFcf(i, base_fcf, projected_fcfs, growth) ==
    IF i = 0 THEN Mul(base_fcf, Add(One, growth))
    ELSE Mul(projected_fcfs[Len(projected_fcfs)], Add(One, growth))

\* ProjectLoop running over range(years + 1)
RECURSIVE ProjectLoop_OneYearMore(_, _, _, _, _, _)
ProjectLoop_OneYearMore(i, years, base_fcf, g5, g10, projected_fcfs) ==
    IF i > years THEN projected_fcfs
    ELSE ProjectLoop_OneYearMore(i + 1, years, base_fcf, g5, g10,
                                 Append(projected_fcfs,
                                        NextFcf(i, base_fcf, projected_fcfs,
                                                StageGrowth(i, g5, g10))))

\* lines 48-58: the loop for i in range(years), from index i on
RECURSIVE ProjectLoop(_, _, _, _, _, _)
ProjectLoop(i, years, base_fcf, g5, g10, projected_fcfs) ==
    IF i >= years THEN projected_fcfs
    ELSE ProjectLoop(i + 1, years, base_fcf, g5, g10,
                     Append(projected_fcfs,
                            NextFcf(i, base_fcf, projected_fcfs,
                                    StageGrowth(i, g5, g10))))

\* line 60: fcf / ((1 + discount_rate) ** (i + 1)), i the 0-based index
DiscountFcf(fcf, discount_rate, i) ==
    Div(fcf, Pow(Add(One, discount_rate), i + 1))

\* line 60: the list of present values
PvFcfs(projected_fcfs, discount_rate) ==
    [j \in 1..Len(projected_fcfs) |->
        DiscountFcf(projected_fcfs[j], discount_rate, j - 1)]

\* GordonTerminalValue capitalising the last cash flow without growing it
GordonTerminalValue_Ungrown(terminal_year_cflow, terminal_growth_rate, discount_rate) ==
    Div(terminal_year_cflow, Sub(discount_rate, terminal_growth_rate))

\* GordonTerminalValue with the operands of the denominator swapped
GordonTerminalValue_RatesSwapped(terminal_year_cflow, terminal_growth_rate, discount_rate) ==
    Div(Mul(terminal_year_cflow, Add(One, terminal_growth_rate)),
        Sub(terminal_growth_rate, discount_rate))

\* line 64: Gordon growth terminal value, discount_rate # terminal_growth_rate
GordonTerminalValue(terminal_year_cflow, terminal_growth_rate, discount_rate) ==
    Div(Mul(terminal_year_cflow, Add(One, terminal_growth_rate)),
        Sub(discount_rate, terminal_growth_rate))

\* line 65: terminal_value / ((1 + discount_rate) ** years)
PvTerminalValue(terminal_value, discount_rate, years) ==
    Div(terminal_value, Pow(Add(One, discount_rate), years))

\* line 70: equity_value / number_of_shares
IntrinsicSharePrice(equity_value, number_of_shares) ==
    Div(equity_value, number_of_shares)

\* LowerBand adding the leeway instead of taking it off
LowerBand_LeewayAdded(intrinsic_share_price, model_error_leeway) ==
    Mul(intrinsic_share_price, Add(One, model_error_leeway))

\* line 72: lower_band = intrinsic_share_price * (1 - model_error_leeway)
LowerBand(intrinsic_share_price, model_error_leeway) ==
    Mul(intrinsic_share_price, Sub(One, model_error_leeway))

\* line 73: upper_band = intrinsic_share_price * (1 + model_error_leeway)
UpperBand(intrinsic_share_price, model_error_leeway) ==
    Mul(intrinsic_share_price, Add(One, model_error_leeway))

\* FinalValueMos taking the default margin of 30 % whatever the caller passes
FinalValueMos_DefaultMargin(intrinsic_share_price, margin_of_safety) ==
    Mul(intrinsic_share_price, Sub(One, Frac(30, 100)))

\* line 74: final_value_mos = intrinsic_share_price * (1 - margin_of_safety)
FinalValueMos(intrinsic_share_price, margin_of_safety) ==
    Mul(intrinsic_share_price, Sub(One, margin_of_safety))

\* lines 75-96: the returned dict
DcfResult(a, number_of_shares, projected_fcfs, total_pv_fcfs, terminal_value, pv_terminal_value, enterprise_value, net_debt, equity_value, intrinsic_share_price) ==
    [status |-> "returned",
     projected_fcfs |-> projected_fcfs,
     total_pv_fcfs |-> total_pv_fcfs,
     pv_terminal_value |-> pv_terminal_value,
     enterprise_value |-> enterprise_value,
     total_debt |-> a.total_debt,
     cash_and_equivalents |-> a.cash_and_equivalents,
     net_debt |-> net_debt,
     equity_value |-> equity_value,
     share_capital |-> a.share_capital,
     face_value |-> a.face_value,
     number_of_shares |-> number_of_shares,
     intrinsic_share_price |-> intrinsic_share_price,
     model_error_leeway_pct |-> Mul(a.model_error_leeway, Num(100)),
     lower_band |-> LowerBand(intrinsic_share_price, a.model_error_leeway),
     upper_band |-> UpperBand(intrinsic_share_price, a.model_error_leeway),
     margin_of_safety_pct |-> Mul(a.margin_of_safety, Num(100)),
     final_value_mos |-> FinalValueMos(intrinsic_share_price, a.margin_of_safety),
     terminal_year_cflow |-> projected_fcfs[Len(projected_fcfs)],
     terminal_value |-> terminal_value]

\* line 70, then lines 71-96
DcfPerShare(a, number_of_shares, projected_fcfs, total_pv_fcfs, terminal_value, pv_terminal_value, enterprise_value, net_debt, equity_value) ==
    DcfResult(a, number_of_shares, projected_fcfs, total_pv_fcfs, terminal_value,
              pv_terminal_value, enterprise_value, net_debt, equity_value,
              IntrinsicSharePrice(equity_value, number_of_shares))

\* line 69, then line 70 on
DcfEquity(a, number_of_shares, projected_fcfs, total_pv_fcfs, terminal_value, pv_terminal_value, enterprise_value, net_debt) ==
    DcfPerShare(a, number_of_shares, projected_fcfs, total_pv_fcfs,
                terminal_value, pv_terminal_value, enterprise_value, net_debt,
                Sub(enterprise_value, net_debt))

\* lines 67-68, then line 69 on
DcfEnterprise(a, number_of_shares, projected_fcfs, total_pv_fcfs, terminal_value, pv_terminal_value) ==
    DcfEquity(a, number_of_shares, projected_fcfs, total_pv_fcfs, terminal_value,
              pv_terminal_value, Add(total_pv_fcfs, pv_terminal_value),
              Sub(a.total_debt, a.cash_and_equivalents))

\* line 65, then line 67 on
DcfTerminal(a, number_of_shares, projected_fcfs, total_pv_fcfs, terminal_value) ==
    DcfEnterprise(a, number_of_shares, projected_fcfs, total_pv_fcfs,
                  terminal_value,
                  PvTerminalValue(terminal_value, a.discount_rate, a.years))

\* lines 60-64, then line 65 on
DcfDiscounted(a, number_of_shares, projected_fcfs) ==
    DcfTerminal(a, number_of_shares, projected_fcfs,
                Sum(PvFcfs(projected_fcfs, a.discount_rate)),
                GordonTerminalValue(projected_fcfs[Len(projected_fcfs)],
                                    a.terminal_growth_rate, a.discount_rate))

\* lines 45-96.  Divisions by zero raise ZeroDivisionError where Python
\* meets them: at line 60 for 1 + discount_rate = 0, at line 64 for
\* discount_rate = terminal_growth_rate, at line 70 for a share count of 0;
\* projected_fcfs[-1] of the empty list of years <= 0 raises IndexError at
\* line 62.
dcf_intrinsic_valuation(a) ==
    IF a.years >= 1 /\ IsZero(Add(One, a.discount_rate))
    THEN Raise("ZeroDivisionError", 60)
    ELSE IF a.years <= 0 THEN Raise("IndexError", 62)
    ELSE IF Eq(a.discount_rate, a.terminal_growth_rate)
    THEN Raise("ZeroDivisionError", 64)
    ELSE IF IsZero(NumberOfShares(a.share_capital, a.face_value))
    THEN Raise("ZeroDivisionError", 70)
    ELSE DcfDiscounted(a, NumberOfShares(a.share_capital, a.face_value),
                       ProjectLoop(0, a.years, a.base_fcf, a.fcf_growth_rate_5yr,
                                   a.fcf_growth_rate_10yr, <<>>))

(***************************************************************************)
(* DCFAnalyzer, src/analysis/valuation.py                                  *)
(***************************************************************************)
\* lines 26-35: __init__ stores both rates, whatever they are
DCFAnalyzer__init__(discount_rate, terminal_growth_rate) ==
    [discount_rate |-> discount_rate,
     terminal_growth_rate |-> terminal_growth_rate]

\* lines 138-143: the cap by company size
SizeCappedGrowth(base_growth, revenue) ==
    IF Gt(revenue, Num(50000)) THEN RMin(Mul(base_growth, Frac(12, 10)), Frac(15, 100))
    ELSE IF Gt(revenue, Num(20000)) THEN RMin(Mul(base_growth, Frac(15, 10)), Frac(20, 100))
    ELSE RMin(Mul(base_growth, Num(2)), Frac(25, 100))

\* line 129
HistoricalGrowth(financial_data) ==
    Div(Get(financial_data, "revenue_growth_3yr", Num(5)), Num(100))

\* line 130
FcfGrowth(financial_data, historical_growth) ==
    Div(Get(financial_data, "fcf_growth_3yr", Mul(historical_growth, Num(100))),
        Num(100))

\* line 133
BaseGrowth(fcf_growth, historical_growth) ==
    IF Gt(RAbs(fcf_growth), Frac(1, 100)) THEN fcf_growth ELSE historical_growth

\* MaxGrowth without the minimum of 5 % of line 146
MaxGrowth_Unfloored(base_growth, revenue) == SizeCappedGrowth(base_growth, revenue)

\* lines 136-146
MaxGrowth(base_growth, revenue) ==
    RMax(SizeCappedGrowth(base_growth, revenue), Frac(5, 100))

\* lines 149-155
DecliningRates(max_growth) ==
    <<max_growth,
      Mul(max_growth, Frac(8, 10)),
      Mul(max_growth, Frac(6, 10)),
      Mul(max_growth, Frac(4, 10)),
      Mul(max_growth, Frac(3, 10))>>

\* lines 118-155
_determine_growth_rates(financial_data) ==
    DecliningRates(
        MaxGrowth(BaseGrowth(FcfGrowth(financial_data,
                                       HistoricalGrowth(financial_data)),
                             HistoricalGrowth(financial_data)),
                  Get(financial_data, "revenue", Num(10000))))

\* lines 157-175: the loop over growth_rates, from position i on
RECURSIVE ProjectRates(_, _, _, _)
\* lines 172-173: current_fcf is grown and appended
AppendGrown(current_fcf, growth_rates, i, projected_fcfs) ==
    ProjectRates(current_fcf, growth_rates, i + 1,
                 Append(projected_fcfs, current_fcf))

ProjectRates(current_fcf, growth_rates, i, projected_fcfs) ==
    IF i > Len(growth_rates) THEN projected_fcfs
    ELSE AppendGrown(Mul(current_fcf, Add(One, growth_rates[i])),
                     growth_rates, i, projected_fcfs)

\* lines 157-175
_project_free_cash_flows(initial_fcf, growth_rates) ==
    ProjectRates(initial_fcf, growth_rates, 1, <<>>)

\* lines 177-193, 1 + discount_rate # 0
_calculate_present_values(self, future_cash_flows) ==
    [year \in 1..Len(future_cash_flows) |->
        Div(future_cash_flows[year], Pow(Add(One, self.discount_rate), year))]

\* lines 195-209
_calculate_margin_of_safety(intrinsic_value, current_price) ==
    IF Le(current_price, Zero) THEN Zero
    ELSE Mul(Div(Sub(intrinsic_value, current_price), current_price), Num(100))

\* lines 229-246: the action of a margin of safety
BaseAction(margin_of_safety) ==
    IF Gt(margin_of_safety, Num(30)) THEN "STRONG BUY"
    ELSE IF Gt(margin_of_safety, Num(15)) THEN "BUY"
    ELSE IF Gt(margin_of_safety, Zero) THEN "BUY"
    ELSE IF Gt(margin_of_safety, Num(-15)) THEN "HOLD"
    ELSE IF Gt(margin_of_safety, Num(-30)) THEN "AVOID"
    ELSE "STRONG AVOID"

\* lines 229-246: the confidence set along with the action
BaseConfidence(margin_of_safety) ==
    IF Gt(margin_of_safety, Num(30)) THEN "HIGH"
    ELSE IF Gt(margin_of_safety, Num(15)) THEN "HIGH"
    ELSE IF Gt(margin_of_safety, Zero) THEN "MEDIUM"
    ELSE IF Gt(margin_of_safety, Num(-15)) THEN "MEDIUM"
    ELSE IF Gt(margin_of_safety, Num(-30)) THEN "MEDIUM"
    ELSE "HIGH"

\* lines 248-255
QualityScore(financial_data) ==
    (IF Gt(Get(financial_data, "roe", Zero), Num(15)) THEN 1 ELSE 0)
    + (IF Lt(Get(financial_data, "debt_to_equity", Zero), Frac(5, 10)) THEN 1 ELSE 0)
    + (IF Gt(Get(financial_data, "revenue_growth_3yr", Zero), Num(5)) THEN 1 ELSE 0)

\* lines 257-261
AdjustedConfidence(action, confidence, quality_score) ==
    IF quality_score >= 2 /\ action \in {"BUY", "STRONG BUY"} THEN "HIGH"
    ELSE IF quality_score <= 1 /\ action \in {"AVOID", "STRONG AVOID"} THEN "HIGH"
    ELSE confidence

\* lines 211-268
_get_investment_recommendation(margin_of_safety, financial_data) ==
    [action |-> BaseAction(margin_of_safety),
     confidence |->
         AdjustedConfidence(BaseAction(margin_of_safety),
                            BaseConfidence(margin_of_safety),
                            QualityScore(financial_data)),
     upside |-> margin_of_safety,
     quality_score |-> QualityScore(financial_data)]

\* lines 270-303
_get_fallback_dcf_result(self, financial_data) ==
    LET current_price == Get(financial_data, "current_price", Zero)
        zeros == <<Zero, Zero, Zero, Zero, Zero>>
    IN [status |-> "returned",
        initial_fcf |-> Zero,
        growth_rates |-> <<Frac(15, 100), Frac(12, 100), Frac(10, 100),
                           Frac(8, 100), Frac(5, 100)>>,
        projected_fcfs |-> zeros,
        present_value_fcfs |-> zeros,
        terminal_value |-> Zero,
        pv_terminal_value |-> Zero,
        enterprise_value |-> Zero,
        net_debt |-> Zero,
        equity_value |-> Zero,
        shares_outstanding |-> Get(financial_data, "shares_outstanding", Zero),
        intrinsic_value_per_share |->
            IF Gt(current_price, Zero) THEN Mul(current_price, Frac(7, 10))
            ELSE Num(100),
        current_price |-> current_price,
        margin_of_safety |-> Num(-30),
        recommendation |-> "HOLD",
        confidence |-> "LOW",
        upside_potential |-> Num(-30),
        target_buy_price |->
            IF Gt(current_price, Zero) THEN Mul(current_price, Frac(5, 10))
            ELSE Num(70),
        target_sell_price |->
            IF Gt(current_price, Zero) THEN Mul(current_price, Frac(12, 10))
            ELSE Num(120),
        discount_rate |-> self.discount_rate,
        terminal_growth_rate |-> self.terminal_growth_rate]

\* lines 54-58: the FCF the projection starts from
InitialFcf(financial_data) ==
    LET fcf == Get(financial_data, "free_cash_flow", Zero)
        revenue == Get(financial_data, "revenue", Zero)
        operating_cf == Get(financial_data, "operating_cash_flow", Zero)
        capex == Get(financial_data, "capital_expenditure", Zero)
    IN IF Le(fcf, Zero)
       THEN RMax(Sub(operating_cf, capex), Mul(revenue, Frac(5, 100)))
       ELSE fcf

\* lines 81-85: intrinsic value per share
IntrinsicValuePerShare(equity_value, shares_outstanding) ==
    IF Gt(shares_outstanding, Zero)
    THEN Div(equity_value, Mul(shares_outstanding, Num(10)))
    ELSE Zero

\* lines 91-112: the returned dict
ValuationResult(self, financial_data, fcf, growth_rates, projected_fcfs, pv_fcfs, terminal_value, pv_terminal, enterprise_value, net_debt, equity_value, intrinsic_value, margin_of_safety, recommendation) ==
    [status |-> "returned",
     initial_fcf |-> fcf,
     growth_rates |-> growth_rates,
     projected_fcfs |-> projected_fcfs,
     present_value_fcfs |-> pv_fcfs,
     terminal_value |-> terminal_value,
     pv_terminal_value |-> pv_terminal,
     enterprise_value |-> enterprise_value,
     net_debt |-> net_debt,
     equity_value |-> equity_value,
     shares_outstanding |-> Get(financial_data, "shares_outstanding", Zero),
     intrinsic_value_per_share |-> intrinsic_value,
     current_price |-> Get(financial_data, "current_price", Zero),
     margin_of_safety |-> margin_of_safety,
     recommendation |-> recommendation.action,
     confidence |-> recommendation.confidence,
     upside_potential |-> recommendation.upside,
     target_buy_price |-> Mul(intrinsic_value, Frac(7, 10)),
     target_sell_price |-> Mul(intrinsic_value, Frac(12, 10)),
     discount_rate |-> self.discount_rate,
     terminal_growth_rate |-> self.terminal_growth_rate]

\* line 89, then lines 91-112
ValuationRecommended(self, financial_data, fcf, growth_rates, projected_fcfs, pv_fcfs, terminal_value, pv_terminal, enterprise_value, net_debt, equity_value, intrinsic_value, margin_of_safety) ==
    ValuationResult(self, financial_data, fcf, growth_rates, projected_fcfs,
                    pv_fcfs, terminal_value, pv_terminal, enterprise_value,
                    net_debt, equity_value, intrinsic_value, margin_of_safety,
                    _get_investment_recommendation(margin_of_safety, financial_data))

\* line 88, then line 89 on
ValuationPerShare(self, financial_data, fcf, growth_rates, projected_fcfs, pv_fcfs, terminal_value, pv_terminal, enterprise_value, net_debt, equity_value, intrinsic_value) ==
    ValuationRecommended(self, financial_data, fcf, growth_rates, projected_fcfs,
                         pv_fcfs, terminal_value, pv_terminal, enterprise_value,
                         net_debt, equity_value, intrinsic_value,
                         _calculate_margin_of_safety(
                             intrinsic_value,
                             Get(financial_data, "current_price", Zero)))

\* lines 79-85, then line 88 on
ValuationEquity(self, financial_data, fcf, growth_rates, projected_fcfs, pv_fcfs, terminal_value, pv_terminal, enterprise_value, net_debt, equity_value) ==
    ValuationPerShare(self, financial_data, fcf, growth_rates, projected_fcfs,
                      pv_fcfs, terminal_value, pv_terminal, enterprise_value,
                      net_debt, equity_value,
                      IntrinsicValuePerShare(
                          equity_value,
                          Get(financial_data, "shares_outstanding", Zero)))

\* lines 75-78, then line 79 on
ValuationEnterprise(self, financial_data, fcf, growth_rates, projected_fcfs, pv_fcfs, terminal_value, pv_terminal, enterprise_value, net_debt) ==
    ValuationEquity(self, financial_data, fcf, growth_rates, projected_fcfs,
                    pv_fcfs, terminal_value, pv_terminal, enterprise_value,
                    net_debt, Sub(enterprise_value, net_debt))

\* line 72, then line 75 on
ValuationTerminal(self, financial_data, fcf, growth_rates, projected_fcfs, pv_fcfs, terminal_value, pv_terminal) ==
    ValuationEnterprise(self, financial_data, fcf, growth_rates, projected_fcfs,
                        pv_fcfs, terminal_value, pv_terminal,
                        Add(Sum(pv_fcfs), pv_terminal),
                        Sub(Get(financial_data, "total_debt", Zero),
                            Get(financial_data, "cash_and_equivalents", Zero)))

\* lines 70-71: terminal_fcf / (discount_rate - terminal_growth_rate)
AnalyzerTerminalValue(self, final_fcf) ==
    Div(Mul(final_fcf, Add(One, self.terminal_growth_rate)),
        Sub(self.discount_rate, self.terminal_growth_rate))

\* lines 67-71, then line 72 on
ValuationDiscounted(self, financial_data, fcf, growth_rates, projected_fcfs, terminal_value) ==
    ValuationTerminal(self, financial_data, fcf, growth_rates, projected_fcfs,
                      _calculate_present_values(self, projected_fcfs),
                      terminal_value,
                      Div(terminal_value,
                          Pow(Add(One, self.discount_rate), Len(projected_fcfs))))

\* line 64, then line 67 on
ValuationProjected(self, financial_data, fcf, growth_rates, projected_fcfs) ==
    ValuationDiscounted(self, financial_data, fcf, growth_rates, projected_fcfs,
                        AnalyzerTerminalValue(self,
                                              projected_fcfs[Len(projected_fcfs)]))

\* lines 49-61, then line 64 on
ValuationFromInputs(self, financial_data, fcf, growth_rates) ==
    ValuationProjected(self, financial_data, fcf, growth_rates,
                       _project_free_cash_flows(fcf, growth_rates))

\* lines 114-115: the try block raises and the except branch logs the error
FallsBack(self) ==
    \/ IsZero(Add(One, self.discount_rate))
    \/ Eq(self.discount_rate, self.terminal_growth_rate)

\* lines 37-116.  A ZeroDivisionError inside the try block (1 + discount_rate
\* = 0 at line 190, discount_rate = terminal_growth_rate at line 71) is caught
\* at line 114 and answered with the fallback result.
calculate_dcf_valuation(self, financial_data) ==
    IF IsZero(Add(One, self.discount_rate))
       \/ Eq(self.discount_rate, self.terminal_growth_rate)
    THEN _get_fallback_dcf_result(self, financial_data)
    ELSE ValuationFromInputs(self, financial_data, InitialFcf(financial_data),
                             _determine_growth_rates(financial_data))

(***************************************************************************)
(* SymbolStockAnalyzer, src/analysis/symbol_stock_analyzer.py              *)
(***************************************************************************)
\* lines 1204-1208: the base FCF handed to the engine
SymbolBaseFcf(financial_data) ==
    LET fcf == Get(financial_data, "free_cash_flow", Zero)
    IN IF Le(fcf, Zero) THEN Get(financial_data, "net_profit", Num(1000))
       ELSE fcf

\* DefaultedShares replacing negative counts only
DefaultedShares_ZeroKept(shares) == IF Lt(shares, Zero) THEN Num(100) ELSE shares

\* lines 1212-1213
DefaultedShares(shares) == IF Le(shares, Zero) THEN Num(100) ELSE shares

\* lines 1216-1217
ScaledShares(shares) ==
    IF Lt(shares, Num(1000)) THEN Mul(shares, Num(10)) ELSE shares

\* lines 1210-1217: the share count handed to the engine
SymbolShares(financial_data) ==
    ScaledShares(DefaultedShares(Get(financial_data, "shares_outstanding", Num(100))))

\* lines 1224-1239: dcf_inputs; model_error_leeway and years are not passed
\* and take the defaults of dcf_intrinsic_valuation (dcf_calculation.py:23,25)
DcfInputs(financial_data) ==
    LET actual_fcf_growth ==
            Div(Get(financial_data, "fcf_growth_3yr", Num(7)), Num(100))
    IN [base_fcf |-> SymbolBaseFcf(financial_data),
        fcf_growth_rate_5yr |-> RMin(actual_fcf_growth, Frac(15, 100)),
        fcf_growth_rate_10yr |->
            RMin(Mul(actual_fcf_growth, Frac(7, 10)), Frac(8, 100)),
        terminal_growth_rate |-> Frac(2, 100),
        discount_rate |-> Frac(12, 100),
        total_debt |-> Get(financial_data, "total_debt", Zero),
        cash_and_equivalents |-> Get(financial_data, "cash_and_equivalents", Zero),
        share_capital |-> SymbolShares(financial_data),
        face_value |-> One,
        margin_of_safety |-> Frac(30, 100),
        model_error_leeway |-> Frac(10, 100),
        years |-> 10]

\* lines 1247-1252: the keys added to the engine's result
WithReadableKeys(dcf_result, financial_data) ==
    [current_market_price |-> Get(financial_data, "current_price", Zero),
     intrinsic_share_price_key |-> dcf_result.intrinsic_share_price,
     final_value_with_margin_of_safety |-> dcf_result.final_value_mos]
    @@ dcf_result

\* lines 1245-1258: an exception of the engine propagates
AnalysisOf(dcf_result, financial_data) ==
    IF dcf_result.status = "raised" THEN dcf_result
    ELSE WithReadableKeys(dcf_result, financial_data)

\* lines 1191-1258
generate_dcf_analysis(financial_data) ==
    AnalysisOf(dcf_intrinsic_valuation(DcfInputs(financial_data)), financial_data)

\* lines 1283-1299: status, recommendation, confidence and reason of a
\* non-zero price
PriceVerdict(current_price, margin_price, intrinsic_value) ==
    IF Le(current_price, margin_price)
    THEN [status |-> "UNDERVALUED", recommendation |-> "BUY",
          confidence |-> "HIGH", reason |-> "below target buy price"]
    ELSE IF Le(current_price, intrinsic_value)
    THEN [status |-> "FAIRLY VALUED", recommendation |-> "HOLD",
          confidence |-> "MEDIUM", reason |-> "near fair value"]
    ELSE [status |-> "OVERVALUED", recommendation |-> "AVOID",
          confidence |-> "HIGH", reason |-> "above fair value"]

\* lines 1260-1307
determine_valuation_status(dcf_result, financial_data) ==
    LET intrinsic_value == dcf_result.intrinsic_share_price_key
        margin_price == dcf_result.final_value_with_margin_of_safety
        current_price == Get(financial_data, "current_price", Zero)
    IN IF IsZero(current_price)
       THEN [status |-> "UNKNOWN",
             reason |-> "Current market price not available",
             recommendation |-> "RESEARCH",
             confidence |-> "LOW"]
       ELSE [upside_potential |->
                 IF Gt(current_price, Zero)
                 THEN Mul(Div(Sub(intrinsic_value, current_price), current_price),
                          Num(100))
                 ELSE Zero]
            @@ PriceVerdict(current_price, margin_price, intrinsic_value)

(***************************************************************************)
(* src/utils/financial_utils.py                                            *)
(***************************************************************************)
\* lines 264-269: the loop over enumerate(growth_rates), from position i on
\* lines 265-268: the cash flow of position i (1-based) of growth_rates
NextCf(base_cf, growth_rates, i, projected_cf) ==
    IF i = 1 THEN Mul(base_cf, Add(One, growth_rates[i]))
    ELSE Mul(projected_cf[Len(projected_cf)], Add(One, growth_rates[i]))

RECURSIVE ProjectCf(_, _, _, _)
ProjectCf(base_cf, growth_rates, i, projected_cf) ==
    IF i > Len(growth_rates) THEN projected_cf
    ELSE ProjectCf(base_cf, growth_rates, i + 1,
                   Append(projected_cf,
                          NextCf(base_cf, growth_rates, i, projected_cf)))

\* lines 245-276: the ValueError of an empty history is caught at line 274
\* and answered with the empty list
project_cash_flows(historical_cf, growth_rates) ==
    IF historical_cf = <<>> THEN <<>>
    ELSE ProjectCf(historical_cf[1], growth_rates, 1, <<>>)

\* CashFlowPv discounting year i by one year less
CashFlowPv_OneYearLess(cf, discount_rate, i) ==
    Div(cf, Pow(Add(One, discount_rate), i - 1))

\* line 230: cf / ((1 + discount_rate) ** i), i the 1-based year
CashFlowPv(cf, discount_rate, i) ==
    Div(cf, Pow(Add(One, discount_rate), i))

\* lines 229-231: the present values added up by the loop
CashFlowPvs(cash_flows, discount_rate) ==
    [i \in 1..Len(cash_flows) |-> CashFlowPv(cash_flows[i], discount_rate, i)]

\* line 234: terminal_value / ((1 + discount_rate) ** len(cash_flows))
TerminalPv(terminal_value, discount_rate, n) ==
    Div(terminal_value, Pow(Add(One, discount_rate), n))

\* lines 211-242.  With 1 + discount_rate = 0 the division of line 230 (or of
\* line 234 for a non-empty list) raises ZeroDivisionError, caught at line
\* 240 and answered with 0; for the empty list 0.0 ** 0 is 1.0.
calculate_dcf_value(cash_flows, terminal_value, discount_rate) ==
    IF cash_flows # <<>> /\ IsZero(Add(One, discount_rate)) THEN Zero
    ELSE Add(Sum(CashFlowPvs(cash_flows, discount_rate)),
             TerminalPv(terminal_value, discount_rate, Len(cash_flows)))

\* lines 279-304.  The ValueError of line 295 is caught at line 302 and
\* answered with 0.
calculate_terminal_value(final_cf, terminal_growth_rate, discount_rate) ==
    IF Le(discount_rate, terminal_growth_rate) THEN Zero
    ELSE Div(Mul(final_cf, Add(One, terminal_growth_rate)),
             Sub(discount_rate, terminal_growth_rate))

(***************************************************************************)
(* FinancialCalculator.calculate_dcf_value, src/utils.py                   *)
(***************************************************************************)
\* the dict the except branch returns: the message of the exception
CalculatorError(message) == [error |-> message]

\* lines 142-151
CalculatorResult(projected_fcfs, terminal_value, pv_fcfs, pv_terminal, enterprise_value, terminal_growth, discount_rate, shares_outstanding) ==
    [projected_fcfs |-> projected_fcfs,
     terminal_value |-> terminal_value,
     present_value_fcfs |-> pv_fcfs,
     present_value_terminal |-> pv_terminal,
     enterprise_value |-> enterprise_value,
     equity_value_per_share |->
         IF Gt(shares_outstanding, Zero)
         THEN Div(enterprise_value, shares_outstanding) ELSE Zero,
     discount_rate |-> discount_rate,
     terminal_growth |-> terminal_growth]

\* line 137: sum(pv_fcfs) + pv_terminal, then lines 140-151
CalculatorEnterprise(projected_fcfs, terminal_value, pv_fcfs, pv_terminal, terminal_growth, discount_rate, shares_outstanding) ==
    CalculatorResult(projected_fcfs, terminal_value, pv_fcfs, pv_terminal,
                     Add(Sum(pv_fcfs), pv_terminal),
                     terminal_growth, discount_rate, shares_outstanding)

\* lines 128-134: the present values of the cash flows and of the terminal
\* value, the latter over len(growth_rates) years
CalculatorDiscounted(projected_fcfs, terminal_value, terminal_growth, discount_rate, shares_outstanding) ==
    CalculatorEnterprise(projected_fcfs, terminal_value,
                         PvFcfs(projected_fcfs, discount_rate),
                         Div(terminal_value,
                             Pow(Add(One, discount_rate), Len(projected_fcfs))),
                         terminal_growth, discount_rate, shares_outstanding)

\* lines 124-125: the terminal value off the last projected cash flow
CalculatorTerminal(projected_fcfs, terminal_growth, discount_rate, shares_outstanding) ==
    CalculatorDiscounted(projected_fcfs,
                         Div(Mul(projected_fcfs[Len(projected_fcfs)],
                                 Add(One, terminal_growth)),
                             Sub(discount_rate, terminal_growth)),
                         terminal_growth, discount_rate, shares_outstanding)

\* line 120: current_fcf *= (1 + rate)
CalculatorGrown(current_fcf, rate) == Mul(current_fcf, Add(One, rate))

\* lines 116-121: the loop over growth_rates from 1-based position i on
RECURSIVE CalculatorProject(_, _, _, _)
CalculatorProject(initial_fcf, growth_rates, i, projected_fcfs) ==
    IF i > Len(growth_rates) THEN projected_fcfs
    ELSE CalculatorProject(initial_fcf, growth_rates, i + 1,
             Append(projected_fcfs,
                    CalculatorGrown(IF i = 1 THEN initial_fcf
                                    ELSE projected_fcfs[i - 1],
                                    growth_rates[i])))

\* lines 98-155.  Every exception ends in the except branch of line 153:
\* projected_fcfs[-1] of no growth rate at line 124, the division by
\* discount_rate - terminal_growth = 0 at line 125, the division by
\* (1 + discount_rate) ** (i + 1) = 0 at line 130.
FinancialCalculator_calculate_dcf_value(initial_fcf, growth_rates, terminal_growth, discount_rate, shares_outstanding) ==
    IF growth_rates = <<>> THEN CalculatorError("list index out of range")
    ELSE IF Eq(discount_rate, terminal_growth) \/ IsZero(Add(One, discount_rate))
    THEN CalculatorError("float division by zero")
    ELSE CalculatorTerminal(CalculatorProject(initial_fcf, growth_rates, 1, <<>>),
                            terminal_growth, discount_rate, shares_outstanding)

(***************************************************************************)
(* The state: one call sequence of a caller, from the arguments to the     *)
(* values returned.                                                        *)
(***************************************************************************)
VARIABLES
    op,         \* the entry point the caller uses
    args,       \* the arguments it passes
    pc,         \* where the caller is: "ready", "constructed", "valued", "done"
    analyzer,   \* the DCFAnalyzer instance, None before construction
    ret,        \* what the entry point returned or raised, None before
    valuation,  \* what determine_valuation_status returned, None before
    env,        \* what lies outside the calls: directories, files, log records
    calls,      \* the calls running on one shared instance, one per thread
    chunker     \* the frame of a chunk_text call

vars == <<op, args, pc, analyzer, ret, valuation, env, calls, chunker>>

\* no directory, no file, nothing logged
EmptyEnv == [dirs |-> {}, files |-> <<>>, log |-> <<>>]

\* logger.info / logger.error: one more record, kept by its level
Logged(e, level) == [e EXCEPT !.log = Append(@, level)]

\* the largest projection length tried
MaxYears == 7

Pct(k) == Frac(k, 100)

\* a dict from a record of numbers: the keys whose number is Absent are left out
Absent == -999999

Dict(r) == [k \in {x \in DOMAIN r : r[x] # Absent} |-> Num(r[k])]

EngineArgs ==
    { [base_fcf |-> Num(b),
       fcf_growth_rate_5yr |-> Pct(g[1]),
       fcf_growth_rate_10yr |-> Pct(g[2]),
       terminal_growth_rate |-> Pct(r[2]),
       discount_rate |-> Pct(r[1]),
       total_debt |-> Num(dc[1]),
       cash_and_equivalents |-> Num(dc[2]),
       share_capital |-> Num(sc),
       face_value |-> Num(fv),
       model_error_leeway |-> Pct(lm[1]),
       margin_of_safety |-> Pct(lm[2]),
       years |-> y] :
        b \in {-500, 0, 1000},
        g \in {<<10, 5>>},
        r \in {<<12, 2>>, <<2, 2>>, <<2, 3>>, <<-100, 2>>},
        dc \in {<<0, 0>>, <<300, 500>>},
        sc \in {-100, 0, 100, 200},
        fv \in {0, 1, 2},
        lm \in {<<10, 30>>, <<0, 0>>, <<25, 50>>},
        y \in {-1, 0, 1, MaxYears} }

AnalyzerArgs ==
    { [discount_rate |-> Pct(r[1]),
       terminal_growth_rate |-> Pct(r[2]),
       financial_data |->
           Dict([free_cash_flow |-> fcf,
                 operating_cash_flow |-> oc[1],
                 capital_expenditure |-> oc[2],
                 revenue |-> rev,
                 shares_outstanding |-> sh,
                 current_price |-> cp,
                 total_debt |-> dc[1],
                 cash_and_equivalents |-> dc[2],
                 revenue_growth_3yr |-> rg])] :
        r \in {<<12, 2>>, <<2, 2>>, <<2, 3>>},
        fcf \in {Absent, -500, 1000},
        oc \in {<<Absent, Absent>>, <<800, 300>>},
        rev \in {Absent, 60000},
        sh \in {Absent, -100, 100, 200},
        cp \in {0, -5, 50},
        dc \in {<<Absent, Absent>>, <<300, 500>>},
        rg \in {Absent, 12} }

Margins ==
    {Num(m) : m \in {-45, -31, -30, -29, -16, -15, -14, -1, 0, 1,
                     14, 15, 16, 29, 30, 31, 45}}
    \cup {Frac(301, 10), Frac(-301, 10), Frac(1, 10), Frac(-1, 10)}

RecommendationArgs ==
    { [discount_rate |-> Pct(12),
       terminal_growth_rate |-> Pct(2),
       margin_of_safety |-> m,
       financial_data |->
           Dict([roe |-> roe, debt_to_equity |-> de, revenue_growth_3yr |-> rg])] :
        m \in Margins, roe \in {Absent, 20}, de \in {Absent, 1},
        rg \in {Absent, 12} }

SymbolArgs ==
    { [financial_data |->
           Dict([free_cash_flow |-> fcf,
                 net_profit |-> np,
                 shares_outstanding |-> sh,
                 fcf_growth_3yr |-> fg,
                 current_price |-> cp])] :
        fcf \in {-500, 1000},
        np \in {Absent, -200},
        sh \in {Absent, -5, 0, 50, 600, 1200},
        fg \in {Absent, 20},
        cp \in {Absent, 0, -5, 1, 2, 50} }

CalculatorArgs ==
    { [initial_fcf |-> Num(f), growth_rates |-> g,
       terminal_growth |-> Pct(r[2]), discount_rate |-> Pct(r[1]),
       shares_outstanding |-> Num(sh)] :
        f \in {-500, 0, 1000},
        g \in {<<>>, <<Pct(10), Pct(10), Pct(10)>>,
               <<Pct(15), Pct(12), Pct(9), Pct(6), Frac(45, 1000)>>,
               <<Pct(-10), Pct(20)>>},
        r \in {<<12, 2>>, <<2, 2>>, <<2, 3>>, <<-100, 2>>},
        sh \in {-100, 0, 100} }

GrowthArgs ==
    { [discount_rate |-> Pct(12),
       terminal_growth_rate |-> Pct(2),
       financial_data |->
           Dict([revenue_growth_3yr |-> rg, fcf_growth_3yr |-> fg, revenue |-> rev])] :
        rg \in {Absent, -20, 0, 3, 12, 30},
        fg \in {Absent, -50, -1, 0, 1, 2, 8, 40},
        rev \in {Absent, 20000, 20001, 50000, 50001} }

ProjectArgs ==
    { [historical_cf |-> h, growth_rates |-> g] :
        h \in {<<>>, <<Num(10000), Num(9500)>>, <<Num(-500)>>},
        g \in {<<>>, <<Pct(5), Pct(4), Pct(3)>>, <<Pct(-10), Pct(20)>>} }

DcfValueArgs ==
    { [cash_flows |-> cfs, terminal_value |-> Num(tv), discount_rate |-> Pct(d)] :
        cfs \in {<<>>, <<Num(1000), Num(1100), Num(1200)>>, <<Num(-500), Num(200)>>},
        tv \in {-100, 0, 15000},
        d \in {-200, -100, -50, 0, 10} }

TerminalArgs ==
    { [final_cf |-> Num(cf), terminal_growth_rate |-> Pct(r[2]),
       discount_rate |-> Pct(r[1])] :
        cf \in {-500, 0, 12000},
        r \in {<<10, 3>>, <<2, 2>>, <<2, 3>>, <<-5, -10>>} }

\* the dictionary a caller holds after the call.  Both functions only read
\* it with .get (valuation.py:49-61, 78, 129-136; symbol_stock_analyzer.py:
\* 1204-1213): a default is used for the call and never stored.
DataAfter_calculate_dcf_valuation_DefaultStored(financial_data) ==
    [k \in DOMAIN financial_data \cup {"shares_outstanding"} |->
        Get(financial_data, k, Zero)]

DataAfter_calculate_dcf_valuation(financial_data) == financial_data

DataAfter_generate_dcf_analysis(financial_data) == financial_data

Init ==
    /\ pc = "ready"
    /\ analyzer = None
    /\ ret = None
    /\ valuation = None
    /\ env = EmptyEnv
    /\ calls = <<>>
    /\ chunker = None
    /\ \/ op = "dcf_intrinsic_valuation" /\ args \in EngineArgs
       \/ op = "calculate_dcf_valuation" /\ args \in AnalyzerArgs
       \/ op = "_get_investment_recommendation" /\ args \in RecommendationArgs
       \/ op = "generate_dcf_analysis" /\ args \in SymbolArgs
       \/ op = "project_cash_flows" /\ args \in ProjectArgs
       \/ op = "calculate_dcf_value" /\ args \in DcfValueArgs
       \/ op = "calculate_terminal_value" /\ args \in TerminalArgs
       \/ op = "FinancialCalculator.calculate_dcf_value" /\ args \in CalculatorArgs
       \/ op = "_determine_growth_rates" /\ args \in GrowthArgs

Call_dcf_intrinsic_valuation ==
    /\ pc = "ready" /\ op = "dcf_intrinsic_valuation"
    /\ ret' = dcf_intrinsic_valuation(args)
    /\ pc' = "done"
    /\ UNCHANGED <<op, args, analyzer, valuation>>
    /\ UNCHANGED env
    /\ UNCHANGED <<calls, chunker>>

\* DCFAnalyzer(discount_rate, terminal_growth_rate)
Construct_DCFAnalyzer ==
    /\ pc = "ready"
    /\ op \in {"calculate_dcf_valuation", "_get_investment_recommendation",
              "_determine_growth_rates"}
    /\ analyzer' = DCFAnalyzer__init__(args.discount_rate, args.terminal_growth_rate)
    /\ pc' = "constructed"
    /\ UNCHANGED <<op, args, ret, valuation>>
    /\ UNCHANGED env
    /\ UNCHANGED <<calls, chunker>>

Call_calculate_dcf_valuation ==
    /\ pc = "constructed" /\ op = "calculate_dcf_valuation"
    /\ ret' = calculate_dcf_valuation(analyzer, args.financial_data)
    /\ pc' = "done"
    /\ args' = [args EXCEPT !.financial_data = DataAfter_calculate_dcf_valuation(@)]
    /\ UNCHANGED <<op, analyzer, valuation>>
    /\ env' = IF FallsBack(analyzer) THEN Logged(env, "ERROR") ELSE env
    /\ UNCHANGED <<calls, chunker>>

Call_get_investment_recommendation ==
    /\ pc = "constructed" /\ op = "_get_investment_recommendation"
    /\ ret' = _get_investment_recommendation(args.margin_of_safety,
                                             args.financial_data)
    /\ pc' = "done"
    /\ UNCHANGED <<op, args, analyzer, valuation>>
    /\ UNCHANGED env
    /\ UNCHANGED <<calls, chunker>>

\* symbol_stock_analyzer.py:1416
Call_generate_dcf_analysis ==
    /\ pc = "ready" /\ op = "generate_dcf_analysis"
    /\ ret' = generate_dcf_analysis(args.financial_data)
    /\ pc' = IF ret'.status = "raised" THEN "done" ELSE "valued"
    /\ args' = [args EXCEPT !.financial_data = DataAfter_generate_dcf_analysis(@)]
    /\ UNCHANGED <<op, analyzer, valuation>>
    /\ UNCHANGED env
    /\ UNCHANGED <<calls, chunker>>

\* symbol_stock_analyzer.py:1419
Call_determine_valuation_status ==
    /\ pc = "valued" /\ op = "generate_dcf_analysis"
    /\ valuation' = determine_valuation_status(ret, args.financial_data)
    /\ pc' = "done"
    /\ UNCHANGED <<op, args, analyzer, ret>>
    /\ UNCHANGED env
    /\ UNCHANGED <<calls, chunker>>

Call_project_cash_flows ==
    /\ pc = "ready" /\ op = "project_cash_flows"
    /\ ret' = project_cash_flows(args.historical_cf, args.growth_rates)
    /\ pc' = "done"
    /\ UNCHANGED <<op, args, analyzer, valuation>>
    /\ env' = Logged(env, IF args.historical_cf = <<>> THEN "ERROR" ELSE "INFO")
    /\ UNCHANGED <<calls, chunker>>

Call_calculate_dcf_value ==
    /\ pc = "ready" /\ op = "calculate_dcf_value"
    /\ ret' = calculate_dcf_value(args.cash_flows, args.terminal_value,
                                  args.discount_rate)
    /\ pc' = "done"
    /\ UNCHANGED <<op, args, analyzer, valuation>>
    /\ env' = Logged(env, IF args.cash_flows # <<>> /\ IsZero(Add(One, args.discount_rate))
                       THEN "ERROR" ELSE "INFO")
    /\ UNCHANGED <<calls, chunker>>

Call_calculate_terminal_value ==
    /\ pc = "ready" /\ op = "calculate_terminal_value"
    /\ ret' = calculate_terminal_value(args.final_cf, args.terminal_growth_rate,
                                       args.discount_rate)
    /\ pc' = "done"
    /\ UNCHANGED <<op, args, analyzer, valuation>>
    /\ env' = Logged(env, IF Le(args.discount_rate, args.terminal_growth_rate)
                       THEN "ERROR" ELSE "INFO")
    /\ UNCHANGED <<calls, chunker>>

\* utils.py:98-155; the except branch logs the error (line 154)
Call_FinancialCalculator_calculate_dcf_value ==
    /\ pc = "ready" /\ op = "FinancialCalculator.calculate_dcf_value"
    /\ ret' = FinancialCalculator_calculate_dcf_value(
                  args.initial_fcf, args.growth_rates, args.terminal_growth,
                  args.discount_rate, args.shares_outstanding)
    /\ pc' = "done"
    /\ UNCHANGED <<op, args, analyzer, valuation>>
    /\ env' = IF "error" \in DOMAIN ret' THEN Logged(env, "ERROR") ELSE env
    /\ UNCHANGED <<calls, chunker>>

\* valuation.py:118-155
Call_determine_growth_rates ==
    /\ pc = "constructed" /\ op = "_determine_growth_rates"
    /\ ret' = _determine_growth_rates(args.financial_data)
    /\ pc' = "done"
    /\ UNCHANGED <<op, args, analyzer, valuation>>
    /\ UNCHANGED env
    /\ UNCHANGED <<calls, chunker>>

Next ==
    \/ Call_dcf_intrinsic_valuation
    \/ Construct_DCFAnalyzer
    \/ Call_calculate_dcf_valuation
    \/ Call_get_investment_recommendation
    \/ Call_generate_dcf_analysis
    \/ Call_determine_valuation_status
    \/ Call_project_cash_flows
    \/ Call_calculate_dcf_value
    \/ Call_calculate_terminal_value
    \/ Call_FinancialCalculator_calculate_dcf_value
    \/ Call_determine_growth_rates

Spec == Init /\ [][Next]_vars

(***************************************************************************)
(* dcf_intrinsic_valuation_and_report, src/analysis/dcf_calculation.py     *)
(* lines 98-194.  A path is the triple of os.path.join's directory and     *)
(* the two parts of the file name; a company name is a tuple of            *)
(* characters.                                                             *)
(***************************************************************************)
\* line 190: company_name.replace(" ", "_").replace("/", "-")
SafeCompany(company_name) ==
    [i \in 1..Len(company_name) |->
        IF company_name[i] = " " THEN "_"
        ELSE IF company_name[i] = "/" THEN "-"
        ELSE company_name[i]]

\* line 191: reports_dir / <safe_company>-dcf-<year>.md
ReportPath(a) == <<a.reports_dir, SafeCompany(a.company_name), a.year>>

\* lines 134-188: the values the template is filled with, each printed with
\* a fixed number of decimals
ReportText(result, a) ==
    [terminal_year_cflow |-> result.terminal_year_cflow,
     terminal_value |-> result.terminal_value,
     pv_terminal_value |-> result.pv_terminal_value,
     terminal_growth_pct |-> Mul(a.terminal_growth_rate, Num(100)),
     discount_pct |-> Mul(a.discount_rate, Num(100)),
     years |-> a.years,
     total_pv_fcfs |-> result.total_pv_fcfs,
     enterprise_value |-> result.enterprise_value,
     total_debt |-> result.total_debt,
     cash_and_equivalents |-> result.cash_and_equivalents,
     net_debt |-> result.net_debt,
     equity_value |-> result.equity_value,
     number_of_shares |-> result.number_of_shares,
     intrinsic_share_price |-> result.intrinsic_share_price,
     model_error_leeway_pct |-> result.model_error_leeway_pct,
     lower_band |-> result.lower_band,
     upper_band |-> result.upper_band,
     margin_of_safety_pct |-> result.margin_of_safety_pct,
     final_value_mos |-> result.final_value_mos]

\* os.makedirs without exist_ok: an existing directory raises FileExistsError
MakeDirsRaises_ExistOkDropped(e, path) == path \in e.dirs

\* line 119: os.makedirs(reports_dir, exist_ok=True) raises for an existing
\* path only when it is not a directory; the files here are reports, none
\* of them named as a reports_dir
MakeDirsRaises(e, path) == FALSE

\* line 119: the directory exists afterwards
MakeDirs(e, path) == [e EXCEPT !.dirs = @ \cup {path}]

\* lines 192-193: open(out_path, "w") and write: the file holds md, whatever
\* it held
WriteFile(e, path, text) ==
    [e EXCEPT !.files = [f \in DOMAIN @ \cup {path} |->
                            IF f = path THEN text ELSE @[f]]]

\* lines 120-194 on the result of the engine: its exception propagates
\* before anything is written, its dict is returned with report_path added
WithReportPath(result, a) ==
    IF result.status = "raised" THEN result
    ELSE [report_path |-> ReportPath(a)] @@ result

EnvAfterReport(e, result, a) ==
    IF result.status = "raised" THEN e
    ELSE WriteFile(e, ReportPath(a), ReportText(result, a))

\* lines 98-194: what the call returns
dcf_intrinsic_valuation_and_report(a) ==
    WithReportPath(dcf_intrinsic_valuation(a), a)

(***************************************************************************)
(* Calls on shared state: NumThreads threads, each making one call of      *)
(* dcf_intrinsic_valuation, dcf_intrinsic_valuation_and_report or          *)
(* calculate_dcf_valuation, the latter on one DCFAnalyzer instance built   *)
(* before the threads start.  A step is a stretch of a call between two    *)
(* accesses to the instance or to the file system; the steps of different  *)
(* threads interleave in any order.                                        *)
(***************************************************************************)
NumThreads == 2

Threads == 1..NumThreads

EngineCall(b, d, tg) ==
    [base_fcf |-> Num(b),
     fcf_growth_rate_5yr |-> Pct(10),
     fcf_growth_rate_10yr |-> Pct(5),
     terminal_growth_rate |-> Pct(tg),
     discount_rate |-> Pct(d),
     total_debt |-> Num(300),
     cash_and_equivalents |-> Num(500),
     share_capital |-> Num(100),
     face_value |-> Num(1),
     model_error_leeway |-> Pct(10),
     margin_of_safety |-> Pct(30),
     years |-> 3]

ReportCall(company_name, a) ==
    [company_name |-> company_name, year |-> "2024", reports_dir |-> "reports"]
    @@ a

\* the calls a thread may make; threads are interchangeable, so they take
\* their calls in the order of this list
CallInputs ==
    << [op |-> "dcf_intrinsic_valuation", args |-> EngineCall(1000, 12, 2)],
      [op |-> "dcf_intrinsic_valuation_and_report",
       args |-> ReportCall(<<"A", " ", "B">>, EngineCall(1000, 12, 2))],
      [op |-> "dcf_intrinsic_valuation_and_report",
       args |-> ReportCall(<<"A", "_", "B">>, EngineCall(-500, 12, 2))],
      [op |-> "dcf_intrinsic_valuation_and_report",
       args |-> ReportCall(<<"C">>, EngineCall(1000, 2, 2))],
      [op |-> "calculate_dcf_valuation",
       args |-> [financial_data |->
                    Dict([free_cash_flow |-> 1000, revenue |-> 60000,
                          shares_outstanding |-> 100, current_price |-> 50])]],
      [op |-> "calculate_dcf_valuation",
       args |-> [financial_data |->
                    Dict([free_cash_flow |-> -500, operating_cash_flow |-> 800,
                          capital_expenditure |-> 300,
                          shares_outstanding |-> 200, current_price |-> 50,
                          total_debt |-> 300, revenue_growth_3yr |-> 12])]] >>

\* the rates the shared instance is constructed with
SharedRates == {<<12, 2>>, <<2, 2>>}

NewCall(c) == [op |-> c.op, args |-> c.args, pc |-> "ready", loc |-> None, ret |-> None]

InitShared ==
    /\ op = "DCFAnalyzer"
    /\ \E r \in SharedRates :
           args = [discount_rate |-> Pct(r[1]), terminal_growth_rate |-> Pct(r[2])]
    /\ analyzer = DCFAnalyzer__init__(args.discount_rate, args.terminal_growth_rate)
    /\ pc = "constructed"
    /\ ret = None
    /\ valuation = None
    /\ env = EmptyEnv
    /\ chunker = None
    /\ \E ix \in [Threads -> 1..Len(CallInputs)] :
           /\ \A t, u \in Threads : t < u => ix[t] <= ix[u]
           /\ calls = [t \in Threads |-> NewCall(CallInputs[ix[t]])]

Returned(c, result) == [c EXCEPT !.pc = "done", !.loc = None, !.ret = result]

\* a call of calculate_dcf_valuation assigning the discount rate it uses to
\* the instance, lowered by a point for a large company
SelfAfter_calculate_dcf_valuation_RateStored(self, financial_data) ==
    [self EXCEPT !.discount_rate =
        IF Gt(Get(financial_data, "revenue", Zero), Num(50000))
        THEN Sub(@, Pct(1)) ELSE @]

\* valuation.py lines 37-116 and the methods called there assign no
\* attribute of self
SelfAfter_calculate_dcf_valuation(self, financial_data) == self

\* dcf_calculation.py lines 45-96: arguments and locals only
Thread_dcf_intrinsic_valuation(t) ==
    /\ calls[t].pc = "ready" /\ calls[t].op = "dcf_intrinsic_valuation"
    /\ calls' = [calls EXCEPT ![t] = Returned(@, dcf_intrinsic_valuation(@.args))]
    /\ UNCHANGED <<op, args, pc, analyzer, ret, valuation, env, chunker>>

\* dcf_calculation.py lines 118-119
Thread_makedirs(t) ==
    /\ calls[t].pc = "ready" /\ calls[t].op = "dcf_intrinsic_valuation_and_report"
    /\ IF MakeDirsRaises(env, calls[t].args.reports_dir)
       THEN /\ calls' = [calls EXCEPT ![t] = Returned(@, Raise("FileExistsError", 119))]
            /\ UNCHANGED env
       ELSE /\ calls' = [calls EXCEPT ![t].pc = "dir_made"]
            /\ env' = MakeDirs(env, calls[t].args.reports_dir)
    /\ UNCHANGED <<op, args, pc, analyzer, ret, valuation, chunker>>

\* dcf_calculation.py lines 120-194
Thread_write_report(t) ==
    /\ calls[t].pc = "dir_made"
    /\ calls' = [calls EXCEPT ![t] =
                    Returned(@, dcf_intrinsic_valuation_and_report(@.args))]
    /\ env' = EnvAfterReport(env, dcf_intrinsic_valuation(calls[t].args), calls[t].args)
    /\ UNCHANGED <<op, args, pc, analyzer, ret, valuation, chunker>>

\* valuation.py lines 47-64: the inputs, the growth rates and the projection
Thread_project(t) ==
    /\ calls[t].pc = "ready" /\ calls[t].op = "calculate_dcf_valuation"
    /\ calls' = [calls EXCEPT
                    ![t].pc = "projected",
                    ![t].loc =
                        [fcf |-> InitialFcf(calls[t].args.financial_data),
                         growth_rates |->
                             _determine_growth_rates(calls[t].args.financial_data),
                         projected_fcfs |->
                             _project_free_cash_flows(
                                 InitialFcf(calls[t].args.financial_data),
                                 _determine_growth_rates(calls[t].args.financial_data))]]
    /\ analyzer' = SelfAfter_calculate_dcf_valuation(analyzer,
                                                     calls[t].args.financial_data)
    /\ UNCHANGED <<op, args, pc, ret, valuation, env, chunker>>

\* the except branch, valuation.py lines 114-116
Fallback(c, self) == Returned(c, _get_fallback_dcf_result(self, c.args.financial_data))

\* valuation.py line 67: _calculate_present_values reads self.discount_rate
Thread_discount(t) ==
    /\ calls[t].pc = "projected"
    /\ IF IsZero(Add(One, analyzer.discount_rate))
       THEN /\ calls' = [calls EXCEPT ![t] = Fallback(@, analyzer)]
            /\ env' = Logged(env, "ERROR")
       ELSE /\ calls' = [calls EXCEPT
                            ![t].pc = "discounted",
                            ![t].loc = [pv_fcfs |->
                                           _calculate_present_values(
                                               analyzer, calls[t].loc.projected_fcfs)]
                                       @@ calls[t].loc]
            /\ UNCHANGED env
    /\ UNCHANGED <<op, args, pc, analyzer, ret, valuation, chunker>>

\* valuation.py lines 70-72: terminal_value and pv_terminal join the locals
PvTerminalLocal(self, loc) ==
    [pv_terminal |-> Div(loc.terminal_value,
                         Pow(Add(One, self.discount_rate), Len(loc.projected_fcfs)))]
    @@ loc

TerminalLocals(self, loc) ==
    PvTerminalLocal(self,
                    [terminal_value |->
                        AnalyzerTerminalValue(self,
                                              loc.projected_fcfs[Len(loc.projected_fcfs)])]
                    @@ loc)

\* valuation.py lines 70-72: both rates of self are read
Thread_terminal(t) ==
    /\ calls[t].pc = "discounted"
    /\ IF Eq(analyzer.discount_rate, analyzer.terminal_growth_rate)
       THEN /\ calls' = [calls EXCEPT ![t] = Fallback(@, analyzer)]
            /\ env' = Logged(env, "ERROR")
       ELSE /\ calls' = [calls EXCEPT
                            ![t].pc = "terminal",
                            ![t].loc = TerminalLocals(analyzer, calls[t].loc)]
            /\ UNCHANGED env
    /\ UNCHANGED <<op, args, pc, analyzer, ret, valuation, chunker>>

\* valuation.py lines 75-112: the rest of the try block; the returned dict
\* reads both rates of self
Thread_return(t) ==
    /\ calls[t].pc = "terminal"
    /\ calls' = [calls EXCEPT ![t] =
                    Returned(@, ValuationTerminal(analyzer, @.args.financial_data,
                                                  @.loc.fcf, @.loc.growth_rates,
                                                  @.loc.projected_fcfs,
                                                  @.loc.pv_fcfs,
                                                  @.loc.terminal_value,
                                                  @.loc.pv_terminal))]
    /\ UNCHANGED <<op, args, pc, analyzer, ret, valuation, env, chunker>>

NextShared ==
    \E t \in Threads :
        \/ Thread_dcf_intrinsic_valuation(t)
        \/ Thread_makedirs(t)
        \/ Thread_write_report(t)
        \/ Thread_project(t)
        \/ Thread_discount(t)
        \/ Thread_terminal(t)
        \/ Thread_return(t)

SpecShared == InitShared /\ [][NextShared]_vars

(***************************************************************************)
(* chunk_text, src/utils/pdf_utils.py, and PDFProcessor.chunk_text,        *)
(* src/utils.py.  A text is a sequence of characters; positions are        *)
(* Python's, counted from 0, negative ones from the end of the text.  A    *)
(* step is the entry of a call or one iteration of its while loop.         *)
(***************************************************************************)
MaxTextLen == 5
MaxChunks == 6

\* pdf_utils.py:158: sentence endings are looked for in the last 100
\* characters of a chunk
SentenceWindow == 100

Alphabet == {"a", " ", "."}

\* str.isspace() of a character
IsSpace(c) == c \in {" ", "\n", "\t"}

\* text[i]; the caller keeps -len(text) <= i < len(text)
At(text, i) == text[IF i < 0 THEN Len(text) + i + 1 ELSE i + 1]

\* the position Python's slicing makes of a bound
SliceBound(text, i) ==
    IF i < 0 THEN Max(Len(text) + i, 0) ELSE IF i > Len(text) THEN Len(text) ELSE i

\* text[start:end]
Slice(text, start, end) ==
    SubSeq(text, SliceBound(text, start) + 1, SliceBound(text, end))

RECURSIVE LStrip(_)
LStrip(text) ==
    IF text # <<>> /\ IsSpace(Head(text)) THEN LStrip(Tail(text)) ELSE text

RECURSIVE RStrip(_)
RStrip(text) ==
    IF text # <<>> /\ IsSpace(text[Len(text)])
    THEN RStrip(SubSeq(text, 1, Len(text) - 1)) ELSE text

\* str.strip()
StripText(text) == RStrip(LStrip(text))

\* the position after the last of the positions found, scanning from end - 1
\* down; none found: the default
AfterLast(found, default) ==
    IF found = {} THEN default
    ELSE (CHOOSE i \in found : \A j \in found : j <= i) + 1

\* pdf_utils.py:188-193
FindWordBoundary(text, start, end) ==
    AfterLast({i \in start..(end - 1) : IsSpace(At(text, i))}, end)

\* pdf_utils.py:174-185
FindSentenceBoundary(text, start, end) ==
    AfterLast({i \in start..(end - 1) :
                  /\ At(text, i) \in {".", "!", "?"}
                  /\ (i + 1 >= Len(text) \/ IsSpace(At(text, i + 1)))},
              FindWordBoundary(text, start, end))

\* pdf_utils.py:158
SearchStart(start, end) == Max(end - SentenceWindow, start)

\* pdf_utils.py:160-161
PulledBack(start, end, sentence_end) ==
    IF sentence_end > start THEN sentence_end ELSE end

\* pdf_utils.py:153-161: the end of the chunk starting at start
ChunkEnd(text, chunk_size, start) ==
    IF start + chunk_size < Len(text)
    THEN PulledBack(start, start + chunk_size,
                    FindSentenceBoundary(text,
                                         SearchStart(start, start + chunk_size),
                                         start + chunk_size))
    ELSE start + chunk_size

\* pdf_utils.py:175: text[i] of a position before the start of the text, which
\* a start moved below -len(text) makes the loop read
ReadsBeforeText(text, chunk_size, start) ==
    /\ start + chunk_size < Len(text)
    /\ SearchStart(start, start + chunk_size) < -Len(text)

\* pdf_utils.py:163-165: append the stripped chunk unless it is empty
WithChunk(chunks, chunk) == IF chunk # <<>> THEN Append(chunks, chunk) ELSE chunks

\* the list of chunks a call returns
ReturnedChunks(chunks) == [status |-> "returned", chunks |-> chunks]

\* the frame of a call entering its loop
LoopFrame == [start |-> 0, chunks |-> <<>>]

\* utils.py:262
NonBlank(chunks) == SelectSeq(chunks, LAMBDA chunk : StripText(chunk) # <<>>)

RECURSIVE TextsOfLen(_)
TextsOfLen(n) ==
    IF n = 0 THEN {<<>>}
    ELSE {Append(t, c) : t \in TextsOfLen(n - 1), c \in Alphabet}

\* a text of n letters with blanks at the positions given (counted from 0)
Letters(n, blanks) == [i \in 1..n |-> IF (i - 1) \in blanks THEN " " ELSE "a"]

ChunkArgs ==
    { [text |-> t, chunk_size |-> so[1], overlap |-> so[2]] :
        t \in UNION {TextsOfLen(n) : n \in 0..MaxTextLen},
        so \in {<<1, 0>>, <<2, 1>>, <<3, 1>>, <<3, 2>>} }
    \cup
    { [text |-> t, chunk_size |-> so[1], overlap |-> so[2]] :
        t \in {Letters(120, {}), Letters(120, {5}), Letters(120, {5, 60}),
               Letters(230, {5, 104, 150})},
        so \in {<<100, 20>>, <<110, 5>>, <<105, 20>>} }

InitChunk ==
    /\ pc = "ready"
    /\ analyzer = None
    /\ ret = None
    /\ valuation = None
    /\ env = EmptyEnv
    /\ calls = <<>>
    /\ chunker = None
    /\ op \in {"chunk_text", "PDFProcessor.chunk_text"}
    /\ args \in ChunkArgs

\* pdf_utils.py:142-146
ChunkText_enter ==
    /\ pc = "ready" /\ op = "chunk_text"
    /\ IF Len(args.text) <= args.chunk_size
       THEN pc' = "done" /\ ret' = ReturnedChunks(<<args.text>>) /\ UNCHANGED chunker
       ELSE pc' = "loop" /\ chunker' = LoopFrame /\ UNCHANGED ret
    /\ UNCHANGED <<op, args, analyzer, valuation, env, calls>>

\* pdf_utils.py:148-170: one iteration; the loop ends by the break of line
\* 169 and the function logs and returns the chunks (lines 171-172)
ChunkText_iterate ==
    /\ pc = "loop" /\ op = "chunk_text"
    /\ chunker.start < Len(args.text)
    /\ Len(chunker.chunks) < MaxChunks
    /\ IF ReadsBeforeText(args.text, args.chunk_size, chunker.start)
       THEN /\ pc' = "done"
            /\ ret' = Raise("IndexError", 175)
            /\ UNCHANGED <<chunker, env>>
       ELSE /\ chunker' =
                [start |-> ChunkEnd(args.text, args.chunk_size, chunker.start)
                              - args.overlap,
                 chunks |-> WithChunk(chunker.chunks,
                                StripText(Slice(args.text, chunker.start,
                                            ChunkEnd(args.text, args.chunk_size,
                                                     chunker.start))))]
            /\ IF chunker'.start >= Len(args.text)
               THEN /\ pc' = "done"
                    /\ ret' = ReturnedChunks(chunker'.chunks)
                    /\ env' = Logged(env, "INFO")
               ELSE pc' = "loop" /\ UNCHANGED <<ret, env>>
    /\ UNCHANGED <<op, args, analyzer, valuation, calls>>

\* utils.py:250-254
PDFProcessor_chunk_text_enter ==
    /\ pc = "ready" /\ op = "PDFProcessor.chunk_text"
    /\ IF args.text = <<>>
       THEN pc' = "done" /\ ret' = ReturnedChunks(<<>>) /\ UNCHANGED chunker
       ELSE pc' = "loop" /\ chunker' = LoopFrame /\ UNCHANGED ret
    /\ UNCHANGED <<op, args, analyzer, valuation, env, calls>>

\* utils.py:256-260: one iteration
PDFProcessor_chunk_text_iterate ==
    /\ pc = "loop" /\ op = "PDFProcessor.chunk_text"
    /\ chunker.start < Len(args.text)
    /\ Len(chunker.chunks) < MaxChunks
    /\ chunker' =
           [start |-> chunker.start + args.chunk_size - args.overlap,
            chunks |-> Append(chunker.chunks,
                              StripText(Slice(args.text, chunker.start,
                                          chunker.start + args.chunk_size)))]
    /\ UNCHANGED <<op, args, pc, analyzer, ret, valuation, env, calls>>

\* utils.py:256, 262: the loop condition fails and the non-blank chunks are
\* returned
PDFProcessor_chunk_text_return ==
    /\ pc = "loop" /\ op = "PDFProcessor.chunk_text"
    /\ chunker.start >= Len(args.text)
    /\ ret' = ReturnedChunks(NonBlank(chunker.chunks))
    /\ pc' = "done"
    /\ UNCHANGED <<op, args, analyzer, valuation, env, calls, chunker>>

NextChunk ==
    \/ ChunkText_enter
    \/ ChunkText_iterate
    \/ PDFProcessor_chunk_text_enter
    \/ PDFProcessor_chunk_text_iterate
    \/ PDFProcessor_chunk_text_return

SpecChunk == InitChunk /\ [][NextChunk]_vars

(***************************************************************************)
(* Properties                                                              *)
(***************************************************************************)
EngineDone == op = "dcf_intrinsic_valuation" /\ pc = "done"
AnalyzerDone == op = "calculate_dcf_valuation" /\ pc = "done"
RecommendationDone == op = "_get_investment_recommendation" /\ pc = "done"
SymbolValued == op = "generate_dcf_analysis" /\ pc \in {"valued", "done"}
ProjectDone == op = "project_cash_flows" /\ pc = "done"

\* calculate_dcf_valuation took the except branch
FallbackPath ==
    \/ IsZero(Add(One, args.discount_rate))
    \/ Eq(args.discount_rate, args.terminal_growth_rate)

\* the share count the caller supplies to calculate_dcf_valuation
SuppliedShares == Get(args.financial_data, "shares_outstanding", Zero)

\* C1: every call of dcf_intrinsic_valuation with discount_rate <=
\* terminal_growth_rate fails with an invalid-assumption error (a ValueError,
\* as the test expects) raised before the projection at line 48, and no
\* DCFAnalyzer is ever constructed with such a pair of rates.
C1_InvalidDiscountRateRejected ==
    /\ (EngineDone /\ Le(args.discount_rate, args.terminal_growth_rate))
           => (ret.status = "raised" /\ ret.exc = "ValueError" /\ ret.line < 48)
    /\ (op = "calculate_dcf_valuation"
        /\ Le(args.discount_rate, args.terminal_growth_rate))
           => analyzer = None

\* C2: every DCF computation on a share count <= 0, supplied directly or
\* derived as share_capital / face_value, fails with an invalid-assumption
\* error and returns no intrinsic value per share.
C2_NonPositiveSharesRejected ==
    /\ (EngineDone
        /\ (IsZero(args.face_value)
            \/ Le(Div(args.share_capital, args.face_value), Zero)))
           => (ret.status = "raised" /\ ret.exc = "ValueError")
    /\ (AnalyzerDone /\ Le(SuppliedShares, Zero)) => ret.status = "raised"

\* the FCF the caller supplies to calculate_dcf_valuation or generate_dcf_analysis
SuppliedFcf == Get(args.financial_data, "free_cash_flow", Zero)

C4_PerShareTimesSharesIsEquity ==
    /\ (EngineDone /\ ret.status = "returned" /\ ~IsZero(args.face_value))
           => Eq(Mul(ret.intrinsic_share_price,
                     Div(args.share_capital, args.face_value)),
                 ret.equity_value)
    /\ (AnalyzerDone /\ ~FallbackPath /\ Gt(SuppliedShares, Zero))
           => Eq(Mul(ret.intrinsic_value_per_share, SuppliedShares),
                 ret.equity_value)
    /\ (SymbolValued /\ Gt(Get(args.financial_data, "shares_outstanding", Zero), Zero))
           => Eq(Mul(ret.intrinsic_share_price,
                     args.financial_data["shares_outstanding"]),
                 ret.equity_value)

\* the arguments with the share count doubled
DoubledCapital == [args EXCEPT !.share_capital = Mul(Num(2), @)]
DoubledShares ==
    [args.financial_data EXCEPT !["shares_outstanding"] = Mul(Num(2), @)]

\* C5: for every positive share count s, the intrinsic value per share
\* computed with 2 * s shares is exactly half of the one computed with s.
C5_DoublingSharesHalvesValue ==
    /\ (EngineDone /\ ret.status = "returned"
        /\ Gt(ret.number_of_shares, Zero) /\ ~IsZero(args.face_value))
           => Eq(Mul(Num(2), dcf_intrinsic_valuation(DoubledCapital).intrinsic_share_price),
                 ret.intrinsic_share_price)
    /\ (AnalyzerDone /\ ~FallbackPath /\ Gt(SuppliedShares, Zero))
           => Eq(Mul(Num(2),
                     calculate_dcf_valuation(analyzer, DoubledShares).intrinsic_value_per_share),
                 ret.intrinsic_value_per_share)
    /\ (SymbolValued /\ Gt(Get(args.financial_data, "shares_outstanding", Zero), Zero))
           => Eq(Mul(Num(2), generate_dcf_analysis(DoubledShares).intrinsic_share_price),
                 ret.intrinsic_share_price)

\* the bands of the recommendation as the claim C6 states them
StatedBand(u) ==
    IF Gt(u, Num(30)) THEN "STRONG BUY"
    ELSE IF Gt(u, Num(15)) THEN "BUY"
    ELSE IF Ge(u, Zero) THEN "BUY"
    ELSE IF Ge(u, Num(-15)) THEN "HOLD"
    ELSE IF Ge(u, Num(-30)) THEN "AVOID"
    ELSE "STRONG AVOID"

\* C6: the action is a function of the upside alone with the bands > 30
\* STRONG BUY, (15, 30] BUY, [0, 15] BUY, [-15, 0) HOLD, [-30, -15) AVOID,
\* below -30 STRONG AVOID; upside 0 gives BUY and upside -15 gives HOLD.
C6_RecommendationBands ==
    RecommendationDone => ret.action = StatedBand(args.margin_of_safety)

\* C7: upside exactly 30 maps to STRONG BUY and upside exactly -30 to AVOID.
C7_OuterThresholds ==
    /\ (RecommendationDone /\ Eq(args.margin_of_safety, Num(30)))
           => ret.action = "STRONG BUY"
    /\ (RecommendationDone /\ Eq(args.margin_of_safety, Num(-30)))
           => ret.action = "AVOID"

\* C8: for every current_price <= 0 the recommendation step answers UNKNOWN,
\* not an actionable label: calculate_dcf_valuation in its recommendation,
\* determine_valuation_status in its status.
C8_NonPositivePriceIsUnknown ==
    /\ (AnalyzerDone /\ ~FallbackPath
        /\ Le(Get(args.financial_data, "current_price", Zero), Zero))
           => ret.recommendation = "UNKNOWN"
    /\ (op = "generate_dcf_analysis" /\ pc = "done" /\ ret.status = "returned"
        /\ Le(Get(args.financial_data, "current_price", Zero), Zero))
           => valuation.status = "UNKNOWN"

\* the growth rate of year i (1-based) of the two-stage schedule
SegmentRate(i, first, second) == IF i <= 5 THEN first ELSE second

\* the recurrence of a projected list: year 1 grows off the base, every later
\* year off the year before, each by the rate rate[i] of its year
Recurrence(projected, base, rate) ==
    \A i \in 1..Len(projected) :
        Eq(projected[i],
           Mul(IF i = 1 THEN base ELSE projected[i - 1], Add(One, rate[i])))

\* C9: in every list of projected cash flows year 1 is the base grown by the
\* rate of year 1 and year i > 1 is year i - 1 grown by the rate of year i; in
\* dcf_intrinsic_valuation years 1-5 take the first rate and the later years
\* the second.
C9_ProjectionRecurrence ==
    /\ (EngineDone /\ ret.status = "returned")
           => /\ Len(ret.projected_fcfs) = args.years
              /\ Recurrence(ret.projected_fcfs, args.base_fcf,
                            [i \in 1..args.years |->
                                SegmentRate(i, args.fcf_growth_rate_5yr,
                                            args.fcf_growth_rate_10yr)])
    /\ SymbolValued
           => /\ Len(ret.projected_fcfs) = 10
              /\ Recurrence(ret.projected_fcfs, DcfInputs(args.financial_data).base_fcf,
                            [i \in 1..10 |->
                                SegmentRate(i,
                                    DcfInputs(args.financial_data).fcf_growth_rate_5yr,
                                    DcfInputs(args.financial_data).fcf_growth_rate_10yr)])
    /\ (AnalyzerDone /\ ~FallbackPath)
           => /\ Len(ret.projected_fcfs) = Len(ret.growth_rates)
              /\ Recurrence(ret.projected_fcfs, ret.initial_fcf, ret.growth_rates)
    /\ (ProjectDone /\ args.historical_cf # <<>>)
           => /\ Len(ret) = Len(args.growth_rates)
              /\ Recurrence(ret, args.historical_cf[1], args.growth_rates)

\* C9 witness: the engine has projected past year 5 with two different rates
C9_Witness_SecondStageProjected ==
    /\ EngineDone /\ ret.status = "returned"
    /\ Len(ret.projected_fcfs) > 5
    /\ ~Eq(args.fcf_growth_rate_5yr, args.fcf_growth_rate_10yr)
    /\ ~IsZero(args.base_fcf)

\* C10: the terminal value is the last projected FCF times (1 + terminal
\* growth) over (discount rate - terminal growth), and its present value is
\* the terminal value over (1 + discount rate)^N, N the number of projected
\* years.
C10_TerminalValue ==
    /\ (EngineDone /\ ret.status = "returned")
           => /\ Eq(ret.terminal_year_cflow, ret.projected_fcfs[args.years])
              /\ Eq(Mul(ret.terminal_value,
                        Sub(args.discount_rate, args.terminal_growth_rate)),
                    Mul(ret.projected_fcfs[args.years],
                        Add(One, args.terminal_growth_rate)))
              /\ Eq(Mul(ret.pv_terminal_value,
                        Pow(Add(One, args.discount_rate), args.years)),
                    ret.terminal_value)
    /\ (AnalyzerDone /\ ~FallbackPath)
           => /\ Eq(Mul(ret.terminal_value,
                        Sub(args.discount_rate, args.terminal_growth_rate)),
                    Mul(ret.projected_fcfs[Len(ret.projected_fcfs)],
                        Add(One, args.terminal_growth_rate)))
              /\ Eq(Mul(ret.pv_terminal_value,
                        Pow(Add(One, args.discount_rate), Len(ret.projected_fcfs))),
                    ret.terminal_value)

\* C10 witness: the engine has returned a terminal value for a projection of
\* several years and a non-zero last cash flow
C10_Witness_TerminalValueComputed ==
    /\ EngineDone /\ ret.status = "returned"
    /\ args.years > 1
    /\ ~IsZero(ret.terminal_value)
    /\ Gt(args.discount_rate, args.terminal_growth_rate)

DcfValueDone == op = "calculate_dcf_value" /\ pc = "done"
TerminalDone == op = "calculate_terminal_value" /\ pc = "done"

\* the value at the end of year i - 1 of the cash flows of the years i..n and
\* of a terminal value falling due with the last of them, q = 1 + discount
\* rate: each year's flow and everything after it is carried back one year
RECURSIVE CarriedBack(_, _, _, _)
CarriedBack(cash_flows, terminal_value, q, i) ==
    IF i > Len(cash_flows) THEN terminal_value
    ELSE Div(Add(cash_flows[i], CarriedBack(cash_flows, terminal_value, q, i + 1)), q)

AllPositive(xs) == \A i \in 1..Len(xs) : Gt(xs[i], Zero)

\* C11: the yearly present values are pv_i = fcf_i / (1 + discount_rate)^i
\* and the present value of a list with a terminal value is their sum plus
\* terminal_value / (1 + discount_rate)^n, wherever 1 + discount_rate # 0
\* makes the quotients defined; it is strictly positive when all cash flows
\* and the terminal value are positive, for every discount rate above -100 %.
C11_DiscountedPresentValue ==
    /\ (EngineDone /\ ret.status = "returned")
           => /\ Eq(ret.total_pv_fcfs,
                    CarriedBack(ret.projected_fcfs, Zero,
                                Add(One, args.discount_rate), 1))
              /\ (/\ AllPositive(ret.projected_fcfs)
                  /\ Gt(ret.terminal_value, Zero)
                  /\ Gt(Add(One, args.discount_rate), Zero))
                     => Gt(Add(ret.total_pv_fcfs, ret.pv_terminal_value), Zero)
    /\ (AnalyzerDone /\ ~FallbackPath)
           => /\ Len(ret.present_value_fcfs) = Len(ret.projected_fcfs)
              /\ \A i \in 1..Len(ret.projected_fcfs) :
                     Eq(Mul(ret.present_value_fcfs[i],
                            Pow(Add(One, args.discount_rate), i)),
                        ret.projected_fcfs[i])
    /\ (DcfValueDone
        /\ (args.cash_flows = <<>> \/ ~IsZero(Add(One, args.discount_rate))))
           => /\ Eq(ret, CarriedBack(args.cash_flows, args.terminal_value,
                                     Add(One, args.discount_rate), 1))
              /\ (/\ AllPositive(args.cash_flows)
                  /\ Gt(args.terminal_value, Zero)
                  /\ Gt(Add(One, args.discount_rate), Zero))
                     => Gt(ret, Zero)

\* C11 witness: calculate_dcf_value has valued three positive cash flows and
\* a positive terminal value above the plain sum of the cash flows
C11_Witness_PresentValueAboveCashFlows ==
    /\ DcfValueDone
    /\ Len(args.cash_flows) = 3 /\ AllPositive(args.cash_flows)
    /\ Gt(args.terminal_value, Zero) /\ Gt(args.discount_rate, Zero)
    /\ Gt(ret, Sum(args.cash_flows))

\* the debt and the cash the caller supplies to calculate_dcf_valuation
SuppliedDebt == Get(args.financial_data, "total_debt", Zero)
SuppliedCash == Get(args.financial_data, "cash_and_equivalents", Zero)

\* the bridge from enterprise value to equity value in a result: the
\* enterprise value is pvs + pv_terminal, the net debt is debt - cash, the
\* equity value is enterprise value - net debt, and with cash > debt the net
\* debt is negative and the equity value above the enterprise value
Bridge(pvs, pv_terminal, enterprise_value, debt, cash, net_debt, equity_value) ==
    /\ Eq(enterprise_value, Add(pvs, pv_terminal))
    /\ Eq(Add(net_debt, cash), debt)
    /\ Eq(Add(equity_value, net_debt), enterprise_value)
    /\ Gt(cash, debt) => (Lt(net_debt, Zero) /\ Gt(equity_value, enterprise_value))

\* C12: in every returned result enterprise_value = sum of the yearly present
\* values + present value of the terminal value, net_debt = total_debt -
\* cash_and_equivalents and equity_value = enterprise_value - net_debt, so
\* that cash above debt gives net_debt < 0 and equity_value > enterprise_value.
C12_EnterpriseEquityBridge ==
    /\ (EngineDone /\ ret.status = "returned")
           => Bridge(ret.total_pv_fcfs, ret.pv_terminal_value, ret.enterprise_value,
                     args.total_debt, args.cash_and_equivalents,
                     ret.net_debt, ret.equity_value)
    /\ AnalyzerDone
           => Bridge(Sum(ret.present_value_fcfs), ret.pv_terminal_value,
                     ret.enterprise_value, SuppliedDebt, SuppliedCash,
                     ret.net_debt, ret.equity_value)

\* C12 on the results calculate_dcf_valuation computes (not the fallback
\* result) and on those of dcf_intrinsic_valuation
C12_BridgeOfComputedResults ==
    /\ (EngineDone /\ ret.status = "returned")
           => Bridge(ret.total_pv_fcfs, ret.pv_terminal_value, ret.enterprise_value,
                     args.total_debt, args.cash_and_equivalents,
                     ret.net_debt, ret.equity_value)
    /\ (AnalyzerDone /\ ~FallbackPath)
           => Bridge(Sum(ret.present_value_fcfs), ret.pv_terminal_value,
                     ret.enterprise_value, SuppliedDebt, SuppliedCash,
                     ret.net_debt, ret.equity_value)

\* C13: in every result dcf_intrinsic_valuation returns with
\* model_error_leeway > 0 and a positive intrinsic value per share, lower
\* band < intrinsic value per share < upper band.
C13_BandConsistency ==
    /\ (EngineDone /\ ret.status = "returned"
        /\ Gt(args.model_error_leeway, Zero) /\ Gt(ret.intrinsic_share_price, Zero))
           => /\ Lt(ret.lower_band, ret.intrinsic_share_price)
              /\ Lt(ret.intrinsic_share_price, ret.upper_band)
    /\ (SymbolValued /\ Gt(ret.intrinsic_share_price, Zero))
           => /\ Lt(ret.lower_band, ret.intrinsic_share_price)
              /\ Lt(ret.intrinsic_share_price, ret.upper_band)

\* C13 witness: the engine has returned a positive intrinsic value per share
\* with bands of a leeway of 25 %
C13_Witness_PositiveValueBanded ==
    /\ EngineDone /\ ret.status = "returned"
    /\ Eq(args.model_error_leeway, Pct(25))
    /\ Gt(ret.intrinsic_share_price, Zero)
    /\ Gt(ret.lower_band, Zero)

\* the target and the bands of an intrinsic value for a margin and a leeway
TargetAndBands(intrinsic, margin, leeway, target, lower, upper) ==
    /\ Eq(target, Sub(intrinsic, Mul(intrinsic, margin)))
    /\ Eq(lower, Sub(intrinsic, Mul(intrinsic, leeway)))
    /\ Eq(upper, Add(intrinsic, Mul(intrinsic, leeway)))

\* C14: the buy target price is intrinsic value per share * (1 - margin of
\* safety) for the margin the caller supplies (30 % by default) and the bands
\* are intrinsic * (1 - leeway) and intrinsic * (1 + leeway) for the leeway
\* supplied (10 % by default); calculate_dcf_valuation, which takes neither,
\* reports the target of the default margin.
C14_TargetAndBands ==
    /\ (EngineDone /\ ret.status = "returned")
           => TargetAndBands(ret.intrinsic_share_price, args.margin_of_safety,
                             args.model_error_leeway, ret.final_value_mos,
                             ret.lower_band, ret.upper_band)
    /\ SymbolValued
           => TargetAndBands(ret.intrinsic_share_price, Frac(30, 100), Frac(10, 100),
                             ret.final_value_with_margin_of_safety,
                             ret.lower_band, ret.upper_band)
    /\ AnalyzerDone
           => Eq(ret.target_buy_price,
                 Sub(ret.intrinsic_value_per_share,
                     Mul(ret.intrinsic_value_per_share, Frac(30, 100))))

\* C14 on the results of dcf_intrinsic_valuation, of generate_dcf_analysis and
\* on those calculate_dcf_valuation computes (not the fallback result)
C14_TargetAndBandsOfComputedResults ==
    /\ (EngineDone /\ ret.status = "returned")
           => TargetAndBands(ret.intrinsic_share_price, args.margin_of_safety,
                             args.model_error_leeway, ret.final_value_mos,
                             ret.lower_band, ret.upper_band)
    /\ SymbolValued
           => TargetAndBands(ret.intrinsic_share_price, Frac(30, 100), Frac(10, 100),
                             ret.final_value_with_margin_of_safety,
                             ret.lower_band, ret.upper_band)
    /\ (AnalyzerDone /\ ~FallbackPath)
           => Eq(ret.target_buy_price,
                 Sub(ret.intrinsic_value_per_share,
                     Mul(ret.intrinsic_value_per_share, Frac(30, 100))))

\* the discount rates a result is compared at
ComparedRates == {Pct(8), Pct(15)}

\* the intrinsic value per share of the same call at the discount rate r
EngineValueAt(r) ==
    dcf_intrinsic_valuation([args EXCEPT !.discount_rate = r]).intrinsic_share_price

AnalyzerValueAt(r) ==
    calculate_dcf_valuation(
        DCFAnalyzer__init__(r, args.terminal_growth_rate),
        args.financial_data).intrinsic_value_per_share

ValidRate == Gt(args.discount_rate, args.terminal_growth_rate)

\* C15 as stated: for all fixed inputs and valid discount rates r1 < r2 the
\* intrinsic value per share at r2 is strictly less than at r1.
C15_Original_HigherRateLowerValue ==
    /\ (EngineDone /\ ret.status = "returned" /\ ValidRate)
           => \A r \in ComparedRates :
                  Gt(r, args.discount_rate)
                      => Lt(EngineValueAt(r), ret.intrinsic_share_price)
    /\ (AnalyzerDone /\ ValidRate)
           => \A r \in ComparedRates :
                  Gt(r, args.discount_rate)
                      => Lt(AnalyzerValueAt(r), ret.intrinsic_value_per_share)

\* C15 amended: for valid discount rates r1 < r2 and growth rates and
\* terminal growth rate above -100 %, the intrinsic value per share of dcf_intrinsic_valuation at r2 is
\* strictly less than at r1 when base FCF and share count have the same sign,
\* strictly greater when their signs differ (a negative base FCF with a
\* positive share count) and the same when the base FCF is 0; that of
\* calculate_dcf_valuation is strictly less when initial_fcf and
\* shares_outstanding are positive and the same when initial_fcf is 0 or
\* shares_outstanding <= 0.
C15_RateMonotoneBySignOfCashFlow ==
    /\ (EngineDone /\ ret.status = "returned" /\ ValidRate)
           => \A r \in ComparedRates :
                  /\ Gt(r, args.discount_rate)
                         => Cmp(ret.intrinsic_share_price, EngineValueAt(r))
                                = args.base_fcf.s * ret.number_of_shares.s
                  /\ (Lt(r, args.discount_rate) /\ Gt(r, args.terminal_growth_rate))
                         => Cmp(EngineValueAt(r), ret.intrinsic_share_price)
                                = args.base_fcf.s * ret.number_of_shares.s
    /\ (AnalyzerDone /\ ValidRate)
           => \A r \in ComparedRates :
                  /\ Gt(r, args.discount_rate)
                         => Cmp(ret.intrinsic_value_per_share, AnalyzerValueAt(r))
                                = IF Gt(SuppliedShares, Zero) THEN ret.initial_fcf.s ELSE 0
                  /\ (Lt(r, args.discount_rate) /\ Gt(r, args.terminal_growth_rate))
                         => Cmp(AnalyzerValueAt(r), ret.intrinsic_value_per_share)
                                = IF Gt(SuppliedShares, Zero) THEN ret.initial_fcf.s ELSE 0

\* C15 witness: the engine has valued a positive base FCF on a positive share
\* count at 12 %, above the value at 15 % and below the value at 8 %
C15_Witness_ValuedBetweenRates ==
    /\ EngineDone /\ ret.status = "returned" /\ ValidRate
    /\ Gt(args.base_fcf, Zero) /\ Gt(ret.number_of_shares, Zero)
    /\ args.years > 1
    /\ Lt(EngineValueAt(Pct(15)), ret.intrinsic_share_price)
    /\ Lt(ret.intrinsic_share_price, EngineValueAt(Pct(8)))

\* the intrinsic value per share of the same engine call with the first rate,
\* or the second, raised by 5 points
EngineValueFirstRaised ==
    dcf_intrinsic_valuation(
        [args EXCEPT !.fcf_growth_rate_5yr = Add(@, Pct(5))]).intrinsic_share_price

EngineValueSecondRaised ==
    dcf_intrinsic_valuation(
        [args EXCEPT !.fcf_growth_rate_10yr = Add(@, Pct(5))]).intrinsic_share_price

\* financial_data with the growth figure under key raised by k points over
\* the value supplied, or over default if none is
GrowthRaised(key, default, k) ==
    [x \in DOMAIN args.financial_data \cup {key} |->
        IF x = key THEN Add(Get(args.financial_data, key, default), Num(k))
        ELSE args.financial_data[x]]

\* generate_dcf_analysis of the same data with fcf_growth_3yr raised by 5 points
SymbolValueGrowthRaised ==
    generate_dcf_analysis(
        GrowthRaised("fcf_growth_3yr", Num(7), 5)).intrinsic_share_price

\* calculate_dcf_valuation of the same data with revenue_growth_3yr raised by
\* k points
AnalyzerGrowthRaised(k) ==
    calculate_dcf_valuation(analyzer, GrowthRaised("revenue_growth_3yr", Num(5), k))

\* the value of calculate_dcf_valuation moves from the result returned to
\* raised, and from raised to raised_more, as its first growth rate does
AnalyzerMovesWithFirstRate(raised, raised_more) ==
    /\ Cmp(raised.intrinsic_value_per_share, ret.intrinsic_value_per_share)
           = IF Gt(SuppliedShares, Zero)
             THEN ret.initial_fcf.s * Cmp(raised.growth_rates[1], ret.growth_rates[1])
             ELSE 0
    /\ Cmp(raised_more.intrinsic_value_per_share, raised.intrinsic_value_per_share)
           = IF Gt(SuppliedShares, Zero)
             THEN ret.initial_fcf.s
                  * Cmp(raised_more.growth_rates[1], raised.growth_rates[1])
             ELSE 0
    /\ Ge(raised.growth_rates[1], ret.growth_rates[1])

SymbolDone == op = "generate_dcf_analysis" /\ pc = "done" /\ ret.status = "returned"
SuppliedPrice == Get(args.financial_data, "current_price", Zero)

\* C18: whenever the intrinsic value per share is negative and the current
\* price is positive, the recommendation is STRONG AVOID, from
\* calculate_dcf_valuation and from determine_valuation_status alike.
C18_NegativeValueStrongAvoid ==
    /\ (/\ AnalyzerDone
        /\ Lt(ret.intrinsic_value_per_share, Zero)
        /\ Gt(ret.current_price, Zero))
           => ret.recommendation = "STRONG AVOID"
    /\ (/\ SymbolDone
        /\ Lt(ret.intrinsic_share_price_key, Zero)
        /\ Gt(SuppliedPrice, Zero))
           => valuation.recommendation = "STRONG AVOID"

\* the part of C18 that holds: calculate_dcf_valuation answers a negative
\* value at a positive price with an upside below -100 and STRONG AVOID
C18_NegativeValueStrongAvoidOfAnalyzer ==
    (/\ AnalyzerDone
     /\ Lt(ret.intrinsic_value_per_share, Zero)
     /\ Gt(ret.current_price, Zero))
        => /\ Lt(ret.upside_potential, Num(-100))
           /\ ret.recommendation = "STRONG AVOID"

C18_Witness_AnalyzerNegativeValue ==
    /\ AnalyzerDone
    /\ Lt(ret.intrinsic_value_per_share, Zero)
    /\ Gt(ret.current_price, Zero)

\* upside * current_price = (intrinsic_value - current_price) * 100
IsUpsideOf(upside, intrinsic_value, current_price) ==
    Eq(Mul(upside, current_price), Mul(Sub(intrinsic_value, current_price), Num(100)))

\* C19: for every positive current price the reported upside is
\* (intrinsic value per share - current price) / current price * 100 and the
\* recommendation is the label of exactly that value in the recommendation
\* bands.
C19_UpsideAndLabel ==
    /\ (AnalyzerDone /\ Gt(ret.current_price, Zero))
           => /\ IsUpsideOf(ret.upside_potential, ret.intrinsic_value_per_share,
                            ret.current_price)
              /\ Eq(ret.margin_of_safety, ret.upside_potential)
              /\ ret.recommendation = BaseAction(ret.upside_potential)
    /\ (SymbolDone /\ Gt(SuppliedPrice, Zero))
           => /\ IsUpsideOf(valuation.upside_potential,
                            ret.intrinsic_share_price_key, SuppliedPrice)
              /\ valuation.recommendation = BaseAction(valuation.upside_potential)

\* the part of C19 that holds: the upside formula everywhere, the label of
\* the bands in the results calculate_dcf_valuation computes
C19_UpsideAndLabelOfComputedResults ==
    /\ (AnalyzerDone /\ Gt(ret.current_price, Zero))
           => /\ IsUpsideOf(ret.upside_potential, ret.intrinsic_value_per_share,
                            ret.current_price)
              /\ Eq(ret.margin_of_safety, ret.upside_potential)
              /\ ~FallbackPath => ret.recommendation = BaseAction(ret.upside_potential)
    /\ (SymbolDone /\ Gt(SuppliedPrice, Zero))
           => IsUpsideOf(valuation.upside_potential,
                         ret.intrinsic_share_price_key, SuppliedPrice)

C19_Witness_LabelledUpside ==
    /\ AnalyzerDone /\ ~FallbackPath
    /\ Gt(ret.current_price, Zero)
    /\ Gt(ret.intrinsic_value_per_share, Zero)

\* the call ended in an exception the caller sees
Surfaced(result) == "status" \in DOMAIN result /\ result.status = "raised"

\* C20: a DCF computation that cannot be carried out (a division by zero, a
\* discount rate not above the terminal growth rate where the function itself
\* rejects it, an empty history) reaches the caller as an exception; no entry
\* point answers it with a substitute valuation, a zero or an empty list.
C20_FailureSurfaced ==
    /\ (EngineDone /\ Eq(args.discount_rate, args.terminal_growth_rate))
           => Surfaced(ret)
    /\ (AnalyzerDone /\ FallbackPath) => Surfaced(ret)
    /\ (TerminalDone /\ Le(args.discount_rate, args.terminal_growth_rate))
           => Surfaced(ret)
    /\ (/\ DcfValueDone
        /\ args.cash_flows # <<>>
        /\ IsZero(Add(One, args.discount_rate)))
           => Surfaced(ret)
    /\ (ProjectDone /\ args.historical_cf = <<>>) => Surfaced(ret)

\* the part of C20 that holds: dcf_intrinsic_valuation, also through
\* generate_dcf_analysis, lets the ZeroDivisionError of its quotients reach
\* the caller
C20_EngineFailureSurfaced ==
    (/\ EngineDone
     /\ \/ Eq(args.discount_rate, args.terminal_growth_rate)
        \/ IsZero(Add(One, args.discount_rate)))
        => Surfaced(ret)

C20_Witness_EngineRaised ==
    /\ EngineDone
    /\ Eq(args.discount_rate, args.terminal_growth_rate)
    /\ ret.status = "raised"

\* C23: a complete DCF analysis of financial data with a positive free cash
\* flow returns an intrinsic value, the current price and a recommendation,
\* and the intrinsic value is strictly positive.
C23_PositiveFcfPositiveValue ==
    (AnalyzerDone /\ Gt(SuppliedFcf, Zero))
        => /\ {"intrinsic_value_per_share", "current_price", "recommendation"}
                  \subseteq DOMAIN ret
           /\ Gt(ret.intrinsic_value_per_share, Zero)

\* what holds instead: the three fields are there, and a computed value has
\* the sign of the equity value on a positive share count and is 0 without
\* one
C23_ValueWithSignOfEquity ==
    (AnalyzerDone /\ Gt(SuppliedFcf, Zero))
        => /\ {"intrinsic_value_per_share", "current_price", "recommendation"}
                  \subseteq DOMAIN ret
           /\ ~FallbackPath
                  => ret.intrinsic_value_per_share.s
                         = IF Gt(SuppliedShares, Zero) THEN ret.equity_value.s ELSE 0

\* C24: a projection length of zero or less is rejected with an
\* invalid-assumption error (a ValueError, as for the rates of C1) raised
\* before the projection at line 48, the discounting and the terminal value.
C24_NonPositiveYearsRejected ==
    (EngineDone /\ args.years <= 0)
        => (ret.status = "raised" /\ ret.exc = "ValueError" /\ ret.line < 48)

\* what the code does for years <= 0: the projection and the discounting run
\* over no year and projected_fcfs[-1] raises IndexError at line 62
C24_NonPositiveYearsIndexError ==
    (EngineDone /\ args.years <= 0)
        => (ret.status = "raised" /\ ret.exc = "IndexError" /\ ret.line = 62)

\* C25: a valuation leaves its inputs unchanged: no step of any call changes
\* the arguments, so the financial-data dictionary holds after the call
\* exactly the keys and values it held before it.
C25_InputsUnchanged == [][args' = args]_vars

\* a valuation of a dictionary without a share count has returned
C25_Witness_ValuedWithDefaults ==
    /\ AnalyzerDone
    /\ "shares_outstanding" \notin DOMAIN args.financial_data
    /\ ret.status = "returned"

\* C26: in every result calculate_dcf_valuation returns, computed or
\* fallback, the recommendation is the label that the threshold table of
\* _get_investment_recommendation gives to the result's upside_potential.
C26_LabelOfOwnThresholds ==
    AnalyzerDone => ret.recommendation = BaseAction(ret.upside_potential)

\* the part of C26 that holds: computed results carry the label of the table;
\* the fallback result carries HOLD with an upside of -30, which the table
\* labels STRONG AVOID
C26_LabelOfOwnThresholdsWhenComputed ==
    /\ (AnalyzerDone /\ ~FallbackPath)
           => ret.recommendation = BaseAction(ret.upside_potential)
    /\ (AnalyzerDone /\ FallbackPath)
           => /\ ret.recommendation = "HOLD"
              /\ Eq(ret.upside_potential, Num(-30))
              /\ BaseAction(ret.upside_potential) = "STRONG AVOID"

CalculatorDone == op = "FinancialCalculator.calculate_dcf_value" /\ pc = "done"

\* the result carries no valuation: the call raised or returned an error dict
NoValuation(result) == "projected_fcfs" \notin DOMAIN result

SameList(xs, ys) ==
    /\ Len(xs) = Len(ys)
    /\ \A i \in 1..Len(xs) : Eq(xs[i], ys[i])

\* two results with the same projected FCFs, terminal value and enterprise
\* value, or two calls that both gave no valuation
SameValuation(r, c) ==
    IF NoValuation(r) \/ NoValuation(c) THEN NoValuation(r) /\ NoValuation(c)
    ELSE /\ SameList(r.projected_fcfs, c.projected_fcfs)
         /\ Eq(r.terminal_value, c.terminal_value)
         /\ Eq(r.enterprise_value, c.enterprise_value)

\* the per-year growth rates dcf_intrinsic_valuation applies
EngineSchedule(a) ==
    [i \in 1..a.years |->
        StageGrowth(i - 1, a.fcf_growth_rate_5yr, a.fcf_growth_rate_10yr)]

\* FinancialCalculator.calculate_dcf_value on the inputs of the engine call
CalculatorOnEngineInputs ==
    FinancialCalculator_calculate_dcf_value(
        args.base_fcf, EngineSchedule(args), args.terminal_growth_rate,
        args.discount_rate, NumberOfShares(args.share_capital, args.face_value))

\* FinancialCalculator.calculate_dcf_value on the base FCF and the growth
\* rates calculate_dcf_valuation works with
CalculatorOnAnalyzerInputs ==
    FinancialCalculator_calculate_dcf_value(
        InitialFcf(args.financial_data), _determine_growth_rates(args.financial_data),
        args.terminal_growth_rate, args.discount_rate, SuppliedShares)

\* the engine arguments projecting Len(growth_rates) years at one rate
EngineOnCalculatorInputs ==
    dcf_intrinsic_valuation(
        [base_fcf |-> args.initial_fcf,
         fcf_growth_rate_5yr |-> args.growth_rates[1],
         fcf_growth_rate_10yr |-> args.growth_rates[1],
         terminal_growth_rate |-> args.terminal_growth,
         discount_rate |-> args.discount_rate,
         total_debt |-> Zero, cash_and_equivalents |-> Zero,
         share_capital |-> args.shares_outstanding, face_value |-> One,
         model_error_leeway |-> Zero, margin_of_safety |-> Zero,
         years |-> Len(args.growth_rates)])

\* the calculator was given one rate for every year
OneRate ==
    /\ args.growth_rates # <<>>
    /\ \A i \in 1..Len(args.growth_rates) : args.growth_rates[i] = args.growth_rates[1]

\* C27: given the same base FCF, per-year growth rates, discount rate and
\* terminal growth rate, dcf_intrinsic_valuation, calculate_dcf_valuation and
\* FinancialCalculator.calculate_dcf_value return the same projected FCFs,
\* the same terminal value and the same enterprise value.
C27_ThreeImplementationsAgree ==
    /\ EngineDone => SameValuation(ret, CalculatorOnEngineInputs)
    /\ AnalyzerDone => SameValuation(ret, CalculatorOnAnalyzerInputs)
    /\ (CalculatorDone /\ OneRate) => SameValuation(EngineOnCalculatorInputs, ret)

\* the part of C27 that holds: whenever two of them compute a valuation, it
\* is the same one
C27_ComputedValuationsAgree ==
    /\ (EngineDone /\ ret.status = "returned")
           => SameValuation(ret, CalculatorOnEngineInputs)
    /\ (AnalyzerDone /\ ~FallbackPath)
           => SameValuation(ret, CalculatorOnAnalyzerInputs)
    /\ (CalculatorDone /\ OneRate /\ EngineOnCalculatorInputs.status = "returned")
           => SameValuation(EngineOnCalculatorInputs, ret)

\* the share count generate_dcf_analysis is given, 100 when it is given none
SymbolSuppliedShares == Get(args.financial_data, "shares_outstanding", Num(100))

\* C28: generate_dcf_analysis never divides by zero: the engine call always
\* returns, with a strictly positive share count (a count <= 0 becomes 100,
\* and a count below 1000 is multiplied by 10), a face value of 1 and a
\* discount rate of 0.12 above the terminal growth rate of 0.02.
C28_NoDivisionByZero ==
    SymbolValued
        => /\ ret.status = "returned"
           /\ Gt(ret.number_of_shares, Zero)
           /\ Eq(ret.number_of_shares,
                 IF Le(SymbolSuppliedShares, Zero) THEN Num(1000)
                 ELSE IF Lt(SymbolSuppliedShares, Num(1000))
                 THEN Mul(SymbolSuppliedShares, Num(10))
                 ELSE SymbolSuppliedShares)
           /\ Eq(ret.face_value, One)
           /\ Eq(DcfInputs(args.financial_data).discount_rate, Frac(12, 100))
           /\ Eq(DcfInputs(args.financial_data).terminal_growth_rate, Frac(2, 100))
           /\ Gt(DcfInputs(args.financial_data).discount_rate,
                 DcfInputs(args.financial_data).terminal_growth_rate)

\* a share count of zero was supplied and the analysis returned a value
C28_Witness_ZeroSharesValued ==
    /\ SymbolValued
    /\ "shares_outstanding" \in DOMAIN args.financial_data
    /\ IsZero(args.financial_data["shares_outstanding"])
    /\ ret.status = "returned"
    /\ Eq(ret.number_of_shares, Num(1000))

GrowthDone == op = "_determine_growth_rates" /\ pc = "done"

\* five strictly positive rates, none above the one before, the first one
\* between 5 % and 25 % and under the cap of the revenue
CappedDecliningRates(rates, revenue) ==
    /\ Len(rates) = 5
    /\ \A i \in 1..Len(rates) : Gt(rates[i], Zero)
    /\ \A i \in 1..(Len(rates) - 1) : Ge(rates[i], rates[i + 1])
    /\ Ge(rates[1], Frac(5, 100)) /\ Le(rates[1], Frac(25, 100))
    /\ Gt(revenue, Num(50000)) => Le(rates[1], Frac(15, 100))
    /\ Gt(revenue, Num(20000)) => Le(rates[1], Frac(20, 100))

\* C29: _determine_growth_rates returns exactly five growth rates, strictly
\* positive and non-increasing from year 1 to year 5, the year-1 rate between
\* 0.05 and 0.25 (at most 0.15 for a revenue above 50000, at most 0.20 above
\* 20000), whatever growth figures are supplied, negative ones included.
C29_FiveCappedDecliningRates ==
    /\ GrowthDone
           => CappedDecliningRates(ret, Get(args.financial_data, "revenue", Num(10000)))
    /\ (AnalyzerDone /\ ~FallbackPath)
           => CappedDecliningRates(ret.growth_rates,
                                   Get(args.financial_data, "revenue", Num(10000)))

\* rates were determined from two negative growth figures
C29_Witness_NegativeGrowthFloored ==
    /\ GrowthDone
    /\ Lt(Get(args.financial_data, "revenue_growth_3yr", Zero), Zero)
    /\ Lt(Get(args.financial_data, "fcf_growth_3yr", Zero), Num(-1))
    /\ Eq(ret[1], Frac(5, 100))

\* a loop iteration has changed the frame of the call
Iterated == pc = "loop" /\ chunker' # chunker

\* the call returned a list of chunks, none longer than chunk_size
ChunksWithinSize ==
    (pc = "done" /\ ret.status = "returned")
        => \A k \in 1..Len(ret.chunks) : Len(ret.chunks[k]) <= args.chunk_size

\* C30: chunk_text terminates for every text and every chunk_size > overlap
\* >= 0: every loop iteration moves the start position forward, also when
\* the end of the chunk is pulled back to a sentence or word boundary, and no
\* chunk returned is longer than chunk_size.
C30_StartAdvancesChunksWithinSize ==
    /\ [][Iterated => chunker'.start > chunker.start]_vars
    /\ []ChunksWithinSize

\* the part of C30 that holds: PDFProcessor.chunk_text moves its start
\* forward by chunk_size - overlap in every iteration, and neither function
\* returns a chunk longer than chunk_size
C30_ProcessorAdvancesChunksWithinSize ==
    /\ [][(Iterated /\ op = "PDFProcessor.chunk_text")
              => chunker'.start = chunker.start + args.chunk_size - args.overlap]_vars
    /\ []ChunksWithinSize

\* chunk_text has pulled the end of a chunk back so far that the next chunk
\* starts where this one started, or before
C30_StartNotAdvanced ==
    /\ op = "chunk_text" /\ pc = "loop"
    /\ ChunkEnd(args.text, args.chunk_size, chunker.start) - args.overlap <= chunker.start

(***************************************************************************)
(* Properties of the calls on shared state                                 *)
(***************************************************************************)
\* what the call of thread t returns when nothing else runs
AloneResult(c) ==
    IF c.op = "dcf_intrinsic_valuation" THEN dcf_intrinsic_valuation(c.args)
    ELSE IF c.op = "dcf_intrinsic_valuation_and_report"
    THEN dcf_intrinsic_valuation_and_report(c.args)
    ELSE calculate_dcf_valuation(
             DCFAnalyzer__init__(args.discount_rate, args.terminal_growth_rate),
             c.args.financial_data)

\* C22: calls running concurrently in any interleaving, those of
\* calculate_dcf_valuation on one shared instance, each return the result
\* they return when run alone, and no step of a call writes the instance.
C22_ConcurrentCallsAsAlone ==
    [][/\ analyzer' = analyzer
       /\ \A t \in Threads :
              (calls[t].pc # "done" /\ calls'[t].pc = "done")
                  => calls'[t].ret = AloneResult(calls[t])]_vars

\* C22 witness: two calls of calculate_dcf_valuation on the shared instance
\* have both returned a computed result after running interleaved
C22_Witness_BothValued ==
    /\ \A t \in Threads :
           /\ calls[t].op = "calculate_dcf_valuation"
           /\ calls[t].pc = "done"
           /\ calls[t].ret.confidence # "LOW"
    /\ calls[1].args # calls[2].args

\* two finished calls with equal inputs have returned equal results
Deterministic ==
    \A t, u \in Threads :
        (/\ calls[t].pc = "done" /\ calls[u].pc = "done"
         /\ calls[t].op = calls[u].op /\ calls[t].args = calls[u].args)
            => calls[t].ret = calls[u].ret

\* the call of thread t takes the step
Steps(t) == calls'[t] # calls[t]

\* the step leaves every file but the one at path as it was
OnlyWritten(path) ==
    /\ DOMAIN env'.files = DOMAIN env.files \cup {path}
    /\ \A f \in DOMAIN env.files : f # path => env'.files[f] = env.files[f]

\* C21 as stated: two calls with equal inputs return equal results, and no
\* step of a call changes a directory, a file or the instance.
C21_Original_NoSideEffects ==
    /\ []Deterministic
    /\ [][/\ analyzer' = analyzer
          /\ env'.dirs = env.dirs
          /\ env'.files = env.files]_vars

\* C21 amended: two calls with equal inputs return equal results;
\* dcf_intrinsic_valuation and calculate_dcf_valuation change no directory,
\* no file and no instance state, calculate_dcf_valuation emitting one log
\* record when it falls back; dcf_intrinsic_valuation_and_report creates its
\* reports_dir and writes the one report file named after company and year,
\* and changes nothing else.
C21_DeterministicReportOnlyWrites ==
    /\ []Deterministic
    /\ [][/\ analyzer' = analyzer
          /\ env'.dirs # env.dirs
                 => \E t \in Threads :
                        /\ Steps(t)
                        /\ calls[t].op = "dcf_intrinsic_valuation_and_report"
                        /\ env'.dirs = env.dirs \cup {calls[t].args.reports_dir}
          /\ env'.files # env.files
                 => \E t \in Threads :
                        /\ Steps(t)
                        /\ calls[t].op = "dcf_intrinsic_valuation_and_report"
                        /\ calls'[t].ret.status = "returned"
                        /\ OnlyWritten(calls'[t].ret.report_path)
          /\ env'.log # env.log
                 => \E t \in Threads :
                        /\ Steps(t)
                        /\ calls[t].op = "calculate_dcf_valuation"
                        /\ calls'[t].pc = "done"
                        /\ env'.log = Append(env.log, "ERROR")]_vars

\* C21 witness: two calls of dcf_intrinsic_valuation_and_report with equal
\* inputs have both returned and the report is on file
C21_Witness_ReportedTwice ==
    /\ \A t \in Threads :
           /\ calls[t].op = "dcf_intrinsic_valuation_and_report"
           /\ calls[t].pc = "done"
           /\ calls[t].ret.status = "returned"
           /\ calls[t].ret.report_path \in DOMAIN env.files
    /\ calls[1].args = calls[2].args

====
